---- MODULE Spec2Model ----
(***************************************************************************)
(* Referral attribution of the Telegram referral bot.                      *)
(*                                                                         *)
(* Spec: the event handlers of TelegramReferralBot, which always runs on   *)
(* the relational adapter (SupabaseManager).  EngineSpec: the methods of   *)
(* ReferralManager called directly, on the flat-file adapter (DataManager, *)
(* its default) or on the relational adapter.  The further specifications  *)
(* each take one part of the program: rewards, the referral-code codec,    *)
(* overlapping credits, the two adapters side by side, backend faults, the *)
(* welcome message, the webhook endpoint, the reporting scans, the file    *)
(* lock, pending referrals and their expiry sweep, chat-member updates,    *)
(* the status callback, the referral list, handlers switching at awaits    *)
(* and a claim among the store accesses of other calls.  Every action is   *)
(* one handler or one method run to completion (or to the exception that   *)
(* ends it), except where a specification splits a call at its awaits or   *)
(* at its accesses of the store.                                           *)
(*                                                                         *)
(* Display names are left out: no modelled branch reads them.  Backend     *)
(* calls succeed and message sends have no effect on state, except where a *)
(* specification draws their outcome.                                      *)
(***************************************************************************)
EXTENDS Integers, Sequences, FiniteSets, TLC

\* ---------------------------------------------------------------- bounds
NumUsers == 2
MaxLinks == 2
MaxSteps == 3
MaxCalls == 3
MaxRewards == 2
MaxRewardCalls == 1
MaxClaims == 4
MaxRewardSteps == 2
NumInstances == 2
MaxIdDigits == 9
MaxFaultCalls == 2
MaxWelcomeSteps == 2
MaxPosts == 3
MaxUpdateId == 3
MaxScanUsers == 4
MaxLimit == 2

\* ------------------------------------------------------- values and types
Users == 1..NumUsers

\* Python None / falsy where a user id is expected
NoUser == 0
\* the coroutine object an un-awaited "async def" call returns (truthy, not a user id)
Coroutine == -1
\* Python None where an invite link is expected
NoLink == 0
\* an invite link that is not a key of data/invite_links.json
ForeignLink == -1

\* str(channel_id) of the two allow-listed chats
TargetChannel == "-1001897244942"
GroupChannel == "-1003629306518"
Channels == {TargetChannel, GroupChannel}

\* str(chat_id) of a chat that is not in Config.ALLOWED_CHAT_IDS
OutsideChat == "-1002000000000"

\* the chats that can be a key of the store or the chat of an update; the
\* handlers of commands and the engine calls are driven on Channels
Chats == Channels \cup {OutsideChat}

REFERRAL_TARGET == 10

\* a missing key of the 'channels' dict
AbsentChannelData ==
  [present |-> FALSE, referral_link |-> NoLink, successful_referrals |-> 0,
   rewards_claimed |-> 0, referred_users |-> <<>>, referral_history |-> <<>>,
   has_history |-> FALSE]

\* the dict both the engine and the link issuer create for a new (user, channel)
NewChannelData ==
  [present |-> TRUE, referral_link |-> NoLink, successful_referrals |-> 0,
   rewards_claimed |-> 0, referred_users |-> <<>>, referral_history |-> <<>>,
   has_history |-> TRUE]

\* get_user_data(...) returning None
NoUserData == [found |-> FALSE, channels |-> [c \in Chats |-> AbsentChannelData]]

\* {'channels': {}}
EmptyUserData == [found |-> TRUE, channels |-> [c \in Chats |-> AbsentChannelData]]

\* pending_time: the 'timestamp' of a pending referral, kept by the flat-file
\* adapter only; channels: the registered channels; codes: the stored referral
\* codes, kept by the flat-file adapter only
EmptyStore ==
  [users |-> <<>>,
   chan |-> [u \in Users |-> [c \in Chats |-> AbsentChannelData]],
   pending |-> [u \in Users |-> [c \in Chats |-> NoUser]],
   pending_time |-> [u \in Users |-> [c \in Chats |-> 0]],
   channels |-> {},
   codes |-> {}]

VARIABLES
  backend,       \* "supabase" | "file": the adapter behind the engine
  db,            \* the persisted store: users, per (user, channel) data, pending referrals
  invite_links,  \* data/invite_links.json: link n is the key of entry n
  member,        \* Telegram's truth: member[u][c] iff u is in chat c
  attributed,    \* attributed[r][c]: current members of c whose latest join resolved to referrer r
  last,          \* what the last handler or method did
  steps,         \* events handled so far
  inflight,      \* per bot instance: the engine call it is in the middle of
  webhook_server \* the webhook server: its event loop and the requests it answered

vars == <<backend, db, invite_links, member, attributed, last, steps, inflight, webhook_server>>

\* bot instances that share the store
Instances == 1..NumInstances

\* an instance that is in no engine call; seen is the count its call read,
\* file the data file its function works on, holds whether it holds the
\* adapter's lock
Idle ==
  [pc |-> "idle", referrer |-> NoUser, chan |-> TargetChannel, user |-> NoUser,
   seen |-> 0, data |-> NoUserData, file |-> "none", holds |-> FALSE]

NoCalls == [i \in Instances |-> Idle]

\* no webhook server: the bot polls
NoWebhook == [loop |-> "none", ready |-> <<>>, processed |-> <<>>, log |-> <<>>]

\* ------------------------------------------------------------ small helpers
SeqToSet(s) == {s[i] : i \in 1..Len(s)}

RECURSIVE RemoveFirst(_, _)
\* list.remove(x): drops the first occurrence
RemoveFirst(s, x) ==
  IF s = <<>> THEN <<>>
  ELSE IF Head(s) = x THEN Tail(s)
  ELSE <<Head(s)>> \o RemoveFirst(Tail(s), x)

\* the fields of a chat-member update that track_chat_member reads; warned:
\* the security check logged its warning
NoUpdate ==
  [is_bot |-> FALSE, old_status |-> "none", new_status |-> "none",
   chat_type |-> "none", warned |-> FALSE]

NoEvent ==
  [op |-> "init", user |-> NoUser, chan |-> TargetChannel, referrer |-> NoUser,
   link |-> NoLink, called |-> FALSE, raised |-> FALSE, wrote |-> FALSE, ret |-> 0,
   reply |-> "none", decoded |-> "none", fault |-> "none", sends |-> <<>>, now |-> 0, update |-> NoUpdate]

\* --------------------------------------------------------------- adapters

\* variant: rewards_claimed is not read back from the row
SupabaseChannelView_without_rewards(row) ==
  IF row.present
    THEN [present |-> TRUE, referral_link |-> row.referral_link,
          successful_referrals |-> row.successful_referrals,
          rewards_claimed |-> 0,
          referred_users |-> <<>>, referral_history |-> <<>>, has_history |-> FALSE]
    ELSE AbsentChannelData

\* what the relational adapter rebuilds from one telegram_user_channels row
SupabaseChannelView(row) ==
  IF row.present
    THEN [present |-> TRUE, referral_link |-> row.referral_link,
          successful_referrals |-> row.successful_referrals,
          rewards_claimed |-> row.rewards_claimed,
          referred_users |-> <<>>, referral_history |-> <<>>, has_history |-> FALSE]
    ELSE AbsentChannelData

\* what the relational adapter writes for one entry of the 'channels' dict
SupabaseChannelRow(cd) ==
  [present |-> TRUE, referral_link |-> cd.referral_link,
   successful_referrals |-> cd.successful_referrals,
   rewards_claimed |-> cd.rewards_claimed,
   referred_users |-> <<>>, referral_history |-> <<>>, has_history |-> FALSE]

get_user_data(be, s, u) ==
  IF u \notin Users \/ u \notin SeqToSet(s.users) THEN NoUserData
  ELSE IF be = "file"
    THEN [found |-> TRUE, channels |-> s.chan[u]]
    ELSE [found |-> TRUE, channels |-> [c \in Chats |-> SupabaseChannelView(s.chan[u][c])]]

save_user_data(be, s, u, data) ==
  IF u \notin Users THEN s
  ELSE LET us == IF u \in SeqToSet(s.users) THEN s.users ELSE Append(s.users, u)
       IN IF be = "file"
            THEN [s EXCEPT !.users = us, !.chan[u] = data.channels]
            ELSE [s EXCEPT !.users = us,
                           !.chan[u] = [c \in Chats |->
                                          IF data.channels[c].present
                                            THEN SupabaseChannelRow(data.channels[c])
                                            ELSE s.chan[u][c]]]

ensure_user_exists(s, u) ==
  IF u \in SeqToSet(s.users) THEN s ELSE [s EXCEPT !.users = Append(s.users, u)]

get_all_users(be, s) ==
  [i \in 1..Len(s.users) |-> [user_id |-> s.users[i], data |-> get_user_data(be, s, s.users[i])]]

add_pending_referral(s, u, c, r) == [s EXCEPT !.pending[u][c] = r]

get_pending_referral(s, u, c) == s.pending[u][c]

\* variant: the delete is dropped
remove_pending_referral_kept(s, u, c) == s

remove_pending_referral(s, u, c) ==
  [s EXCEPT !.pending[u][c] = NoUser, !.pending_time[u][c] = 0]

\* ----------------------------------------------------------------- engine
\* Each method returns [db: the store afterwards, raised: it ended in an
\* exception, wrote: save_user_data was called, ret: the value returned].

process_successful_referral(be, s, r, c, u) ==
  LET got == get_user_data(be, s, r)
      referrer_data == IF got.found THEN got ELSE EmptyUserData
      cd0 == IF referrer_data.channels[c].present
               THEN referrer_data.channels[c] ELSE NewChannelData
  IN IF ~cd0.has_history
       \* KeyError 'referral_history' at the append, before anything is saved
       THEN [db |-> s, raised |-> TRUE, wrote |-> FALSE, ret |-> 0]
       ELSE LET cd1 == [cd0 EXCEPT
                          !.successful_referrals = @ + 1,
                          !.referred_users = Append(@, u),
                          !.referral_history = Append(@, [user_id |-> u, action |-> "joined"])]
                data == [referrer_data EXCEPT !.channels[c] = cd1]
            IN [db |-> save_user_data(be, s, r, data), raised |-> FALSE,
                wrote |-> TRUE, ret |-> cd1.successful_referrals]

\* variant: every leave decrements, with no test of the list and no floor
process_referral_leave_blind(be, s, r, c, u) ==
  LET got == get_user_data(be, s, r)
      quiet == [db |-> s, raised |-> FALSE, wrote |-> FALSE, ret |-> 0]
  IN IF ~got.found THEN quiet
     ELSE IF ~got.channels[c].present THEN quiet
     ELSE LET cd1 == [got.channels[c] EXCEPT !.successful_referrals = @ - 1]
              data == [got EXCEPT !.channels[c] = cd1]
          IN [db |-> save_user_data(be, s, r, data), raised |-> FALSE,
              wrote |-> TRUE, ret |-> 0]

\* variant: no test that u is in the referred_users list
process_referral_leave_unchecked(be, s, r, c, u) ==
  LET got == get_user_data(be, s, r)
      quiet == [db |-> s, raised |-> FALSE, wrote |-> FALSE, ret |-> 0]
  IN IF ~got.found THEN quiet
     ELSE IF ~got.channels[c].present THEN quiet
     ELSE LET cd0 == got.channels[c]
              cd1 == [cd0 EXCEPT
                        !.successful_referrals = IF @ > 0 THEN @ - 1 ELSE @,
                        !.referred_users = RemoveFirst(@, u)]
              data == [got EXCEPT !.channels[c] = cd1]
          IN [db |-> save_user_data(be, s, r, data), raised |-> FALSE,
              wrote |-> TRUE, ret |-> 0]

process_referral_leave(be, s, r, c, u) ==
  LET got == get_user_data(be, s, r)
      quiet == [db |-> s, raised |-> FALSE, wrote |-> FALSE, ret |-> 0]
  IN IF ~got.found THEN quiet
     ELSE IF ~got.channels[c].present THEN quiet
     ELSE LET cd0 == got.channels[c]
          IN IF u \notin SeqToSet(cd0.referred_users) THEN quiet
             ELSE IF ~cd0.has_history
               THEN [db |-> s, raised |-> TRUE, wrote |-> FALSE, ret |-> 0]
               ELSE LET cd1 == [cd0 EXCEPT
                                  !.successful_referrals = IF @ > 0 THEN @ - 1 ELSE @,
                                  !.referred_users = RemoveFirst(@, u),
                                  !.referral_history = Append(@, [user_id |-> u, action |-> "left"])]
                        data == [got EXCEPT !.channels[c] = cd1]
                    IN [db |-> save_user_data(be, s, r, data), raised |-> FALSE,
                        wrote |-> TRUE, ret |-> 0]

RECURSIVE FirstReferrer(_, _, _)
\* the loop of find_referrer over all_users.items(), in store order
FirstReferrer(all, c, u) ==
  IF all = <<>> THEN NoUser
  ELSE IF Head(all).data.channels[c].present
          /\ u \in SeqToSet(Head(all).data.channels[c].referred_users)
    THEN Head(all).user_id
    ELSE FirstReferrer(Tail(all), c, u)

find_referrer(be, s, c, u) == FirstReferrer(get_all_users(be, s), c, u)

\* variant: a claim is accepted when nothing is available
claim_reward_at_zero(be, s, u, c) ==
  LET got == get_user_data(be, s, u)
      fail == [db |-> s, raised |-> FALSE, wrote |-> FALSE, ret |-> 0]
  IN IF ~got.found THEN fail
     ELSE IF ~got.channels[c].present THEN fail
     ELSE LET cd0 == got.channels[c]
              available_rewards ==
                (cd0.successful_referrals \div REFERRAL_TARGET) - cd0.rewards_claimed
          IN IF available_rewards < 0 THEN fail
             ELSE LET cd1 == [cd0 EXCEPT !.rewards_claimed = @ + 1]
                      data == [got EXCEPT !.channels[c] = cd1]
                  IN [db |-> save_user_data(be, s, u, data), raised |-> FALSE,
                      wrote |-> TRUE, ret |-> cd1.rewards_claimed]

\* variant: one claim redeems every available reward
claim_reward_all_at_once(be, s, u, c) ==
  LET got == get_user_data(be, s, u)
      fail == [db |-> s, raised |-> FALSE, wrote |-> FALSE, ret |-> 0]
  IN IF ~got.found THEN fail
     ELSE IF ~got.channels[c].present THEN fail
     ELSE LET cd0 == got.channels[c]
              available_rewards ==
                (cd0.successful_referrals \div REFERRAL_TARGET) - cd0.rewards_claimed
          IN IF available_rewards <= 0 THEN fail
             ELSE LET cd1 == [cd0 EXCEPT !.rewards_claimed = @ + available_rewards]
                      data == [got EXCEPT !.channels[c] = cd1]
                  IN [db |-> save_user_data(be, s, u, data), raised |-> FALSE,
                      wrote |-> TRUE, ret |-> cd1.rewards_claimed]

\* wrote: the claim succeeded ('success': True); ret: 'total_claimed'
claim_reward(be, s, u, c) ==
  LET got == get_user_data(be, s, u)
      fail == [db |-> s, raised |-> FALSE, wrote |-> FALSE, ret |-> 0]
  IN IF ~got.found THEN fail
     ELSE IF ~got.channels[c].present THEN fail
     ELSE LET cd0 == got.channels[c]
              available_rewards ==
                (cd0.successful_referrals \div REFERRAL_TARGET) - cd0.rewards_claimed
          IN IF available_rewards <= 0 THEN fail
             ELSE LET cd1 == [cd0 EXCEPT !.rewards_claimed = @ + 1]
                      data == [got EXCEPT !.channels[c] = cd1]
                  IN [db |-> save_user_data(be, s, u, data), raised |-> FALSE,
                      wrote |-> TRUE, ret |-> cd1.rewards_claimed]

\* ------------------------------------------------------------ referral codes
\* A text is a sequence of character codes (ASCII); a referral code is a text.

\* str(n) for an integer n >= 0
RECURSIVE DecimalText(_)
DecimalText(n) ==
  IF n < 10 THEN <<48 + n>> ELSE DecimalText(n \div 10) \o <<48 + (n % 10)>>

\* the characters of str(channel_id)
ChannelText(c) ==
  IF c = TargetChannel THEN <<45, 49, 48, 48, 49, 56, 57, 55, 50, 52, 52, 57, 52, 50>>
  ELSE IF c = OutsideChat THEN <<45, 49, 48, 48, 50, 48, 48, 48, 48, 48, 48, 48, 48, 48>>
  ELSE <<45, 49, 48, 48, 51, 54, 50, 57, 51, 48, 54, 53, 49, 56>>

Key_referrer_id == <<114, 101, 102, 101, 114, 114, 101, 114, 95, 105, 100>>
Key_channel_id == <<99, 104, 97, 110, 110, 101, 108, 95, 105, 100>>
Key_timestamp == <<116, 105, 109, 101, 115, 116, 97, 109, 112>>
Key_hash == <<104, 97, 115, 104>>

RequiredFields == <<Key_referrer_id, Key_channel_id, Key_timestamp>>

HexDigit(v) == IF v < 10 THEN 48 + v ELSE 87 + v

RECURSIVE WeightedSum(_, _, _)
WeightedSum(t, lo, hi) ==
  IF lo > hi THEN 0
  ELSE IF lo = hi THEN (t[lo] * lo) % 65536
  ELSE LET mid == (lo + hi) \div 2
       IN (WeightedSum(t, lo, mid) + WeightedSum(t, mid + 1, hi)) % 65536

\* hashlib.md5(data).hexdigest()[:8], as far as the codec depends on it: eight
\* hexadecimal digits that are a fixed function of the text.  MD5 itself is not
\* computed; no code path reads the digits back.
md5_hexdigest8(data) ==
  LET h == WeightedSum(data, 1, Len(data))
      g == (h * 31 + 7) % 65536
  IN <<HexDigit(h \div 4096), HexDigit((h \div 256) % 16), HexDigit((h \div 16) % 16),
       HexDigit(h % 16), HexDigit(g \div 4096), HexDigit((g \div 256) % 16),
       HexDigit((g \div 16) % 16), HexDigit(g % 16)>>

\* f"{user_id}_{channel_id}_{timestamp}"
HashInput(user_id, channel_id, timestamp) ==
  DecimalText(user_id) \o <<95>> \o ChannelText(channel_id) \o <<95>> \o DecimalText(timestamp)

Quoted(t) == <<34>> \o t \o <<34>>

\* json.dumps of the dict built by generate_referral_code
json_dumps(user_id, channel_id, timestamp, hash_str) ==
  <<123>> \o Quoted(Key_referrer_id) \o <<58, 32>> \o DecimalText(user_id)
    \o <<44, 32>> \o Quoted(Key_channel_id) \o <<58, 32>> \o ChannelText(channel_id)
    \o <<44, 32>> \o Quoted(Key_timestamp) \o <<58, 32>> \o DecimalText(timestamp)
    \o <<44, 32>> \o Quoted(Key_hash) \o <<58, 32>> \o Quoted(hash_str) \o <<125>>

\* the base64 alphabet: A-Z a-z 0-9 + /
B64Char(v) ==
  IF v < 26 THEN 65 + v
  ELSE IF v < 52 THEN 97 + (v - 26)
  ELSE IF v < 62 THEN 48 + (v - 52)
  ELSE IF v = 62 THEN 43 ELSE 47

\* the value of a base64 character; 64 for any other character
B64Value(ch) ==
  IF ch >= 65 /\ ch <= 90 THEN ch - 65
  ELSE IF ch >= 97 /\ ch <= 122 THEN ch - 97 + 26
  ELSE IF ch >= 48 /\ ch <= 57 THEN ch - 48 + 52
  ELSE IF ch = 43 THEN 62
  ELSE IF ch = 47 THEN 63
  ELSE 64

\* base64.b64encode: four characters per three bytes, '=' where bytes are missing
b64encode(bytes) ==
  LET n == Len(bytes)
      b(i) == IF i <= n THEN bytes[i] ELSE 0
  IN [j \in 1..(4 * ((n + 2) \div 3)) |->
        LET g == (j - 1) \div 4
            k == (j - 1) % 4
            b1 == b(3 * g + 1)
            b2 == b(3 * g + 2)
            b3 == b(3 * g + 3)
        IN IF k = 0 THEN B64Char(b1 \div 4)
           ELSE IF k = 1 THEN B64Char((b1 % 4) * 16 + (b2 \div 16))
           ELSE IF k = 2
             THEN IF 3 * g + 2 > n THEN 61 ELSE B64Char((b2 % 16) * 4 + (b3 \div 64))
           ELSE IF 3 * g + 3 > n THEN 61 ELSE B64Char(b3 % 64)]

\* str.replace(a, b) for single characters
Replace(t, a, b) == [i \in 1..Len(t) |-> IF t[i] = a THEN b ELSE t[i]]

\* str.replace(a, '') for a single character
Strip(t, a) == LET keep(ch) == ch # a IN SelectSeq(t, keep)

\* the code that carries a JSON text: base64, made URL-safe, padding removed
url_safe_code(json_str) ==
  LET encoded == b64encode(json_str)
  IN Strip(Replace(Replace(encoded, 43, 45), 47, 95), 61)

\* utils.generate_referral_code, with the clock reading as a parameter
generate_referral_code(user_id, channel_id, timestamp) ==
  LET hash_str == md5_hexdigest8(HashInput(user_id, channel_id, timestamp))
  IN url_safe_code(json_dumps(user_id, channel_id, timestamp, hash_str))

\* base64.b64decode in its default mode, for a text whose '=' characters are
\* the `pads` trailing ones: characters outside the alphabet are discarded, and
\* a last group of 2 or 3 characters needs 2 or 1 pads; 1 character is an error
b64decode(text, pads) ==
  LET inAlphabet(ch) == B64Value(ch) < 64
      data == SelectSeq(text, inAlphabet)
      m == Len(data)
      q == m % 4
      v(j) == B64Value(data[j])
      n == 3 * (m \div 4) + (IF q = 2 THEN 1 ELSE IF q = 3 THEN 2 ELSE 0)
  IN [ok |-> q = 0 \/ (q = 2 /\ pads >= 2) \/ (q = 3 /\ pads >= 1),
      bytes |-> [i \in 1..n |->
                   LET g == (i - 1) \div 3
                       k == (i - 1) % 3
                   IN IF k = 0 THEN v(4 * g + 1) * 4 + (v(4 * g + 2) \div 16)
                      ELSE IF k = 1 THEN (v(4 * g + 2) % 16) * 16 + (v(4 * g + 3) \div 4)
                      ELSE (v(4 * g + 3) % 4) * 64 + v(4 * g + 4)]]

\* the continuation bytes a UTF-8 lead byte announces; -1 for a byte that
\* cannot start a character
Utf8Need(b) ==
  IF b < 128 THEN 0
  ELSE IF b >= 194 /\ b <= 223 THEN 1
  ELSE IF b >= 224 /\ b <= 239 THEN 2
  ELSE IF b >= 240 /\ b <= 244 THEN 3
  ELSE -1

IsContinuation(b) == b >= 128 /\ b <= 191

\* bytes.decode() succeeds: the bytes are well-formed UTF-8
Utf8Valid(bytes) ==
  LET n == Len(bytes)
      follows(i, k) == /\ i + k <= n
                       /\ \A e \in 1..k : IsContinuation(bytes[i + e])
      secondOk(i) == LET b == bytes[i]
                         c == bytes[i + 1]
                     IN /\ (b = 224 => c >= 160)
                        /\ (b = 237 => c <= 159)
                        /\ (b = 240 => c >= 144)
                        /\ (b = 244 => c <= 143)
      covered(i) == \E d \in 1..3 :
                      /\ i - d >= 1
                      /\ Utf8Need(bytes[i - d]) >= d
                      /\ \A e \in 1..(d - 1) : IsContinuation(bytes[i - e])
  IN \A i \in 1..n :
       IF IsContinuation(bytes[i]) THEN covered(i)
       ELSE LET k == Utf8Need(bytes[i])
            IN k >= 0 /\ follows(i, k) /\ (k > 0 => secondOk(i))

IsSpace(ch) == ch \in {32, 9, 10, 13}
IsPunct(ch) == ch \in {123, 125, 91, 93, 58, 44}
IsDigit(ch) == ch >= 48 /\ ch <= 57
IsHex(ch) == IsDigit(ch) \/ (ch >= 97 /\ ch <= 102) \/ (ch >= 65 /\ ch <= 70)

Positions(t) == [i \in 1..Len(t) |-> i]

\* the number of backslashes immediately before position i
BackslashRun(t, i) ==
  Cardinality({d \in 1..(i - 1) : \A e \in 1..d : t[i - e] = 92})

\* the first position at or after `from` that holds no digit; Len(w) + 1 if none
FirstNonDigit(w, from) ==
  from + Cardinality({d \in 1..(Len(w) - from + 1) : \A e \in 0..(d - 1) : IsDigit(w[from + e])})

\* true, false, null, NaN, Infinity, -Infinity
Literals ==
  {<<116, 114, 117, 101>>, <<102, 97, 108, 115, 101>>, <<110, 117, 108, 108>>,
   <<78, 97, 78>>, <<73, 110, 102, 105, 110, 105, 116, 121>>,
   <<45, 73, 110, 102, 105, 110, 105, 116, 121>>}

\* what the JSON scanner makes of a run of characters outside strings:
\* -?(0|[1-9][0-9]*)(.[0-9]+)?([eE][-+]?[0-9]+)? is a number
WordKind(w) ==
  LET n == Len(w)
      s == IF w[1] = 45 THEN 2 ELSE 1
      p1 == FirstNonDigit(w, s)
      intOk == p1 > s /\ (w[s] # 48 \/ p1 = s + 1)
      fracAt == p1 <= n /\ w[p1] = 46
      p2 == IF fracAt THEN FirstNonDigit(w, p1 + 1) ELSE p1
      fracOk == ~fracAt \/ p2 > p1 + 1
      expAt == p2 <= n /\ w[p2] \in {101, 69}
      s3 == IF expAt /\ p2 + 1 <= n /\ w[p2 + 1] \in {43, 45} THEN p2 + 2 ELSE p2 + 1
      p3 == IF expAt THEN FirstNonDigit(w, s3) ELSE p2
      expOk == ~expAt \/ p3 > s3
  IN IF w \in Literals THEN "literal"
     ELSE IF intOk /\ fracOk /\ expOk /\ p3 = n + 1
       THEN IF fracAt \/ expAt THEN "float" ELSE "int"
     ELSE "bad"

\* the positions of the quotes that open or close a string: those with an even
\* number of backslashes before them
QuotePositions(t) ==
  LET isQuote(i) == t[i] = 34 /\ BackslashRun(t, i) % 2 = 0
  IN SelectSeq(Positions(t), isQuote)

\* where position i lies, given the quote positions qp: on an opening or a
\* closing quote, inside a string, or outside every string
Place(qp, i) ==
  IF \E k \in 1..(Len(qp) \div 2) : qp[2 * k - 1] = i THEN "open"
  ELSE IF \E k \in 1..(Len(qp) \div 2) : qp[2 * k] = i THEN "close"
  ELSE IF \E k \in 1..(Len(qp) \div 2) : qp[2 * k - 1] < i /\ i < qp[2 * k] THEN "in"
  ELSE "out"

\* position i holds a character of a number, a literal or garbage
IsWordChar(t, qp, i) ==
  Place(qp, i) = "out" /\ ~IsSpace(t[i]) /\ ~IsPunct(t[i])

\* a token starts at position i
IsTokenStart(t, qp, i) ==
  \/ Place(qp, i) = "open"
  \/ /\ Place(qp, i) = "out"
     /\ ~IsSpace(t[i])
     /\ (IsPunct(t[i]) \/ i = 1 \/ ~IsWordChar(t, qp, i - 1))

\* the last position of the run of word characters that starts at i
WordEnd(t, qp, i) ==
  CHOOSE j \in i..Len(t) :
    /\ \A e \in i..j : IsWordChar(t, qp, e)
    /\ (j = Len(t) \/ ~IsWordChar(t, qp, j + 1))

\* the character at i, inside a string, is allowed there: no control
\* character, and a backslash only as the start of an escape
StringCharOk(t, qp, i) ==
  /\ t[i] >= 32
  /\ (t[i] = 92 /\ BackslashRun(t, i) % 2 = 0)
       => /\ i + 1 <= Len(t)
          /\ \/ t[i + 1] \in {34, 92, 47, 98, 102, 110, 114, 116}
             \/ /\ t[i + 1] = 117
                /\ i + 5 <= Len(t)
                /\ \A e \in 2..5 : IsHex(t[i + e]) /\ Place(qp, i + e) = "in"

\* the token that starts at i: a string without its quotes, a punctuation
\* mark, or a run of other characters
TokenAt(t, qp, i) ==
  IF Place(qp, i) = "open"
    THEN [kind |-> "str",
          text |-> SubSeq(t, i + 1,
                          qp[2 * (CHOOSE k \in 1..(Len(qp) \div 2) : qp[2 * k - 1] = i)] - 1)]
  ELSE IF IsPunct(t[i]) THEN [kind |-> "punct", text |-> <<t[i]>>]
  ELSE [kind |-> WordKind(SubSeq(t, i, WordEnd(t, qp, i))),
        text |-> SubSeq(t, i, WordEnd(t, qp, i))]

\* the tokens that start at the positions sp.  ok is FALSE for an unterminated
\* string, a control character or a bad escape inside a string.
Tokens(t, qp, sp) ==
  [ok |-> Len(qp) % 2 = 0 /\ \A i \in 1..Len(t) : Place(qp, i) = "in" => StringCharOk(t, qp, i),
   toks |-> [k \in 1..Len(sp) |-> TokenAt(t, qp, sp[k])]]

TokenStarts(t, qp) ==
  LET starts(i) == IsTokenStart(t, qp, i)
  IN SelectSeq(Positions(t), starts)

Tokenize(t, qp) == Tokens(t, qp, TokenStarts(t, qp))

json_tokens(t) == Tokenize(t, QuotePositions(t))

JsonError == [kind |-> "error", keys |-> <<>>, vals |-> <<>>, text |-> <<>>]

IsMark(tok, ch) == tok.kind = "punct" /\ tok.text = <<ch>>

IsScalar(tok) == tok.kind \in {"str", "int", "float", "literal"}

\* key: value pairs separated by commas fill toks[2..Len(toks) - 1]
ObjectOk(toks) ==
  /\ (Len(toks) - 2) % 4 = 3
  /\ \A j \in 0..(((Len(toks) - 1) \div 4) - 1) :
       /\ toks[2 + 4 * j].kind = "str"
       /\ IsMark(toks[3 + 4 * j], 58)
       /\ IsScalar(toks[4 + 4 * j])
       /\ (j < ((Len(toks) - 1) \div 4) - 1 => IsMark(toks[5 + 4 * j], 44))

\* values separated by commas fill toks[2..Len(toks) - 1]
ArrayOk(toks) ==
  /\ (Len(toks) - 2) % 2 = 1
  /\ \A j \in 0..(((Len(toks) - 1) \div 2) - 1) :
       /\ IsScalar(toks[2 + 2 * j])
       /\ (j < ((Len(toks) - 1) \div 2) - 1 => IsMark(toks[3 + 2 * j], 44))

\* the value a sequence of tokens stands for: a scalar, an array of scalars,
\* or an object whose values are scalars (a nested container counts as an
\* error).  A string keeps its characters as written, escapes included.
parse_tokens(ok, toks) ==
  IF ~ok \/ Len(toks) = 0 THEN JsonError
  ELSE IF Len(toks) = 1
    THEN IF IsScalar(toks[1])
           THEN [JsonError EXCEPT !.kind = toks[1].kind, !.text = toks[1].text]
           ELSE JsonError
  ELSE IF IsMark(toks[1], 123) /\ IsMark(toks[Len(toks)], 125)
    THEN IF Len(toks) = 2 THEN [JsonError EXCEPT !.kind = "dict"]
         ELSE IF ObjectOk(toks)
           THEN [JsonError EXCEPT
                   !.kind = "dict",
                   !.keys = [j \in 1..((Len(toks) - 1) \div 4) |-> toks[4 * j - 2].text],
                   !.vals = [j \in 1..((Len(toks) - 1) \div 4) |-> toks[4 * j]]]
         ELSE JsonError
  ELSE IF IsMark(toks[1], 91) /\ IsMark(toks[Len(toks)], 93)
    THEN IF Len(toks) = 2 THEN [JsonError EXCEPT !.kind = "list"]
         ELSE IF ArrayOk(toks)
           THEN [JsonError EXCEPT
                   !.kind = "list",
                   !.vals = [j \in 1..((Len(toks) - 1) \div 2) |-> toks[2 * j]]]
         ELSE JsonError
  ELSE JsonError

parse_lexed(lexed) == parse_tokens(lexed.ok, lexed.toks)

\* json.loads for the texts with one level of structure
json_loads(t) == parse_lexed(json_tokens(t))

\* t[i:i+len(w)] == w for some i
IsSubstring(w, t) ==
  \E i \in 0..(Len(t) - Len(w)) : SubSeq(t, i + 1, i + Len(w)) = w

\* `field in referral_data`, by the type of referral_data; for a number or a
\* literal the test raises TypeError
Contains(data, field) ==
  IF data.kind = "dict" THEN \E j \in 1..Len(data.keys) : data.keys[j] = field
  ELSE IF data.kind = "list"
    THEN \E j \in 1..Len(data.vals) : data.vals[j] = [kind |-> "str", text |-> field]
  ELSE IF data.kind = "str" THEN IsSubstring(field, data.text)
  ELSE FALSE

\* referral_data[key] of a dict that has the key: the last pair with that key
Lookup(data, key) ==
  LET js == {j \in 1..Len(data.keys) : data.keys[j] = key}
  IN data.vals[CHOOSE j \in js : \A k \in js : k <= j]

\* int(text) for a text of digits
RECURSIVE IntOf(_)
IntOf(w) ==
  IF Len(w) = 0 THEN 0 ELSE IntOf(SubSeq(w, 1, Len(w) - 1)) * 10 + (w[Len(w)] - 48)

\* a decoded referrer_id that is no user id of the model: not a JSON integer,
\* negative, or of more than MaxIdDigits digits
NotAnId == -3

IdOf(tok) ==
  IF tok.kind = "int" /\ tok.text[1] # 45 /\ Len(tok.text) <= MaxIdDigits
    THEN IntOf(tok.text) ELSE NotAnId

\* a decoded channel_id that is no channel of the model
OtherChannel == "other"

ChannelOf(tok) ==
  IF tok.kind = "int" /\ \E c \in Chats : ChannelText(c) = tok.text
    THEN CHOOSE c \in Chats : ChannelText(c) = tok.text
    ELSE OtherChannel

\* decode_referral_code returning None
InvalidCode ==
  [ok |-> FALSE, kind |-> "none", referrer_id |-> NoUser, channel_id |-> TargetChannel,
   data |-> JsonError]

\* the end of decode_referral_code: the required-fields test on the value
\* json.loads returned, and the value returned
checked_fields(referral_data) ==
  IF referral_data.kind \notin {"dict", "list", "str"} THEN InvalidCode
  ELSE IF ~\A f \in 1..Len(RequiredFields) : Contains(referral_data, RequiredFields[f])
    THEN InvalidCode
  ELSE IF referral_data.kind = "dict"
    THEN [ok |-> TRUE, kind |-> "dict",
          referrer_id |-> IdOf(Lookup(referral_data, Key_referrer_id)),
          channel_id |-> ChannelOf(Lookup(referral_data, Key_channel_id)),
          data |-> referral_data]
  ELSE [ok |-> TRUE, kind |-> referral_data.kind, referrer_id |-> NotAnId,
        channel_id |-> OtherChannel, data |-> referral_data]

\* decode_referral_code from the outcome of b64decode on
decoded_bytes(raw) ==
  IF ~raw.ok THEN InvalidCode
  ELSE IF ~Utf8Valid(raw.bytes) THEN InvalidCode
  ELSE checked_fields(json_loads(raw.bytes))

\* the '=' characters decode_referral_code appends to a code
Padding(code) == IF Len(code) % 4 = 0 THEN 0 ELSE 4 - (Len(code) % 4)

\* variant: the padding is not restored
decode_referral_code_unpadded(referral_code) ==
  decoded_bytes(b64decode(Replace(Replace(referral_code, 45, 43), 95, 47), 0))

\* utils.decode_referral_code: ok is "the result is not None", kind the type of
\* the value returned
decode_referral_code(referral_code) ==
  decoded_bytes(b64decode(Replace(Replace(referral_code, 45, 43), 95, 47),
                          Padding(referral_code)))

\* int(time.time()) at the moment a code is generated
Timestamps == {1793545337}

\* JSON texts nobody generated: an object without its timestamp, an array and
\* a string that hold the three field names, and a number
MissingTimestampText ==
  <<123, 34, 114, 101, 102, 101, 114, 114, 101, 114, 95, 105, 100, 34, 58, 32, 49, 44, 32,
    34, 99, 104, 97, 110, 110, 101, 108, 95, 105, 100, 34, 58, 32, 45, 49, 48, 48, 49, 56,
    57, 55, 50, 52, 52, 57, 52, 50, 125>>

FieldNamesArrayText ==
  <<91, 34, 114, 101, 102, 101, 114, 114, 101, 114, 95, 105, 100, 34, 44, 32, 34, 99, 104,
    97, 110, 110, 101, 108, 95, 105, 100, 34, 44, 32, 34, 116, 105, 109, 101, 115, 116, 97,
    109, 112, 34, 93>>

FieldNamesStringText ==
  <<34, 114, 101, 102, 101, 114, 114, 101, 114, 95, 105, 100, 32, 99, 104, 97, 110, 110,
    101, 108, 95, 105, 100, 32, 116, 105, 109, 101, 115, 116, 97, 109, 112, 34>>

NumberText == <<53>>

\* a payload that is not base64 of anything
JunkCode == <<104, 101, 108, 108, 111>>

\* referral-code payloads of /start: codes of every (referrer, channel), a code
\* without its timestamp, a code of an array, and a string that does not decode
CodePayloads ==
  {generate_referral_code(r, c, ts) : r \in Users, c \in Channels, ts \in Timestamps}
    \cup {url_safe_code(MissingTimestampText), url_safe_code(FieldNamesArrayText), JunkCode}

\* a Telegram user whose record the model does not keep: reading it finds
\* nothing, and what is saved for it is not kept
OutsideUser == 12

\* the codes of the outside user
OutsidePayloads ==
  {generate_referral_code(OutsideUser, c, ts) : c \in Channels, ts \in Timestamps}

\* decode_referral_code on the payloads of the model, tabulated
\* the codes of the users for a chat that is not allow-listed
OutsideChatPayloads ==
  {generate_referral_code(r, OutsideChat, ts) : r \in Users, ts \in Timestamps}

DecodedPayloads ==
  [p \in CodePayloads \cup OutsidePayloads \cup OutsideChatPayloads |-> decode_referral_code(p)]

\* ------------------------------------------------------------ bot handlers
\* the body of the coroutine: the creator stored for the link, or None
get_referrer_from_link(il, link) ==
  IF link \in 1..Len(il) THEN il[link].user_id ELSE NoUser

\* variant: the call is awaited
referrer_from_link_call_awaited(il, link) == get_referrer_from_link(il, link)

\* what the join handler's call of it yields: the call is not awaited
referrer_from_link_call(il, link) == Coroutine

store_invite_link_mapping(il, u, c) == Append(il, [user_id |-> u, chat_id |-> c])

\* the deep link generate_referral_link falls back to; it is not an invite link
BotLink == -2

\* apiOk: Telegram's create_chat_invite_link succeeded
create_trackable_invite_link(s, il, u, c, apiOk) ==
  IF ~apiOk THEN [db |-> s, il |-> il, link |-> BotLink]
  ELSE LET link == Len(il) + 1
           il1 == store_invite_link_mapping(il, u, c)
           got == get_user_data("supabase", s, u)
           d0 == IF got.found THEN got ELSE EmptyUserData
           cd0 == IF d0.channels[c].present THEN d0.channels[c] ELSE NewChannelData
           data == [d0 EXCEPT !.channels[c] = [cd0 EXCEPT !.referral_link = link]]
       IN [db |-> save_user_data("supabase", s, u, data), il |-> il1, link |-> link]

\* the link stored in u's record for the target channel, if any
stored_target_link(s, u) ==
  LET got == get_user_data("supabase", s, u)
  IN IF got.found /\ got.channels[TargetChannel].present
       THEN got.channels[TargetChannel].referral_link ELSE NoLink

\* the referrer the join handler resolves for (c, u, link)
resolve_referrer(s, il, c, u, link) ==
  IF get_pending_referral(s, u, c) # NoUser THEN get_pending_referral(s, u, c)
  ELSE IF link # NoLink THEN referrer_from_link_call(il, link)
  ELSE NoUser

\* _handle_user_join; the result carries the store, the mapping file and what happened
handle_user_join(s, il, c, u, link, apiOk) ==
  LET s1 == ensure_user_exists(s, u)
      pend == get_pending_referral(s1, u, c)
      referrer_id == resolve_referrer(s1, il, c, u, link)
      s2 == IF pend # NoUser THEN remove_pending_referral(s1, u, c) ELSE s1
      res == IF referrer_id # NoUser
               THEN process_successful_referral("supabase", s2, referrer_id, c, u)
               ELSE [db |-> s2, raised |-> FALSE, wrote |-> FALSE, ret |-> 0]
      referral_link == stored_target_link(res.db, u)
      made == IF referral_link = NoLink
                THEN create_trackable_invite_link(res.db, il, u, TargetChannel, apiOk)
                ELSE [db |-> res.db, il |-> il, link |-> referral_link]
      ev == [op |-> "join", user |-> u, chan |-> c, referrer |-> referrer_id,
             link |-> link, called |-> referrer_id # NoUser, raised |-> res.raised,
             wrote |-> res.wrote, ret |-> res.ret, reply |-> "none",
                    decoded |-> "none", fault |-> "none", sends |-> <<>>, now |-> 0, update |-> NoUpdate]
  IN IF res.raised
       \* the exception leaves the handler: no link is issued, no welcome is sent
       THEN [db |-> s2, il |-> il, ev |-> ev]
       ELSE [db |-> made.db, il |-> made.il, ev |-> ev]

\* _handle_user_leave
handle_user_leave(s, c, u) ==
  LET referrer_id == find_referrer("supabase", s, c, u)
      res == IF referrer_id # NoUser
               THEN process_referral_leave("supabase", s, referrer_id, c, u)
               ELSE [db |-> s, raised |-> FALSE, wrote |-> FALSE, ret |-> 0]
  IN [db |-> res.db,
      ev |-> [op |-> "leave", user |-> u, chan |-> c, referrer |-> referrer_id,
              link |-> NoLink, called |-> referrer_id # NoUser, raised |-> res.raised,
              wrote |-> res.wrote, ret |-> 0, reply |-> "none", decoded |-> "none", fault |-> "none", sends |-> <<>>, now |-> 0, update |-> NoUpdate]]

\* referral_data['referrer_id'] raises TypeError: the decoded value is a list
\* or a string, and the exception leaves the handler
referral_join_raises(p) ==
  DecodedPayloads[p].ok /\ DecodedPayloads[p].kind # "dict"

\* the pending referral is one the model tracks
TrackedReferral(referral_data) ==
  /\ referral_data.referrer_id \in Users \cup {OutsideUser}
  /\ referral_data.channel_id \in Chats

\* variant: no test for a user's own code
handle_referral_join_unguarded(s, u, p, isMember) ==
  LET referral_data == DecodedPayloads[p]
  IN IF ~referral_data.ok THEN s
     ELSE IF referral_join_raises(p) THEN s
     ELSE IF isMember THEN s
     ELSE IF ~TrackedReferral(referral_data) THEN s
     ELSE add_pending_referral(s, u, referral_data.channel_id, referral_data.referrer_id)

\* _handle_referral_join; isMember: get_chat_member answered with a member status
handle_referral_join(s, u, p, isMember) ==
  LET referral_data == DecodedPayloads[p]
      referrer_id == referral_data.referrer_id
      channel_id == referral_data.channel_id
  IN IF ~referral_data.ok THEN s
     ELSE IF referral_join_raises(p) THEN s
     ELSE IF referrer_id = u THEN s
     ELSE IF isMember THEN s
     ELSE IF ~TrackedReferral(referral_data) THEN s
     ELSE add_pending_referral(s, u, channel_id, referrer_id)

\* the message _handle_referral_join answers with; "none" when it raised,
\* "invite" for the join link or the error text sent after the pending
\* referral is stored
referral_join_reply(u, p, isMember) ==
  LET referral_data == DecodedPayloads[p]
  IN IF ~referral_data.ok THEN "invalid_link"
     ELSE IF referral_join_raises(p) THEN "none"
     ELSE IF referral_data.referrer_id = u THEN "own_link"
     ELSE IF isMember THEN "already_member"
     ELSE "invite"

\* ------------------------------------------------------------------ events
Statuses == {"left", "kicked", "member", "administrator", "creator", "restricted"}

\* variant: a restricted user counts as one who is in the chat
classify_restricted_member(is_bot, old_status, new_status) ==
  IF is_bot THEN "skip"
  ELSE IF old_status \in {"left", "kicked"}
          /\ new_status \in {"member", "administrator", "creator", "restricted"} THEN "join"
  ELSE IF old_status \in {"member", "administrator", "creator", "restricted"}
          /\ new_status \in {"left", "kicked"} THEN "leave"
  ELSE "skip"

\* the branch track_chat_member takes for an update
classify(is_bot, old_status, new_status) ==
  IF is_bot THEN "skip"
  ELSE IF old_status \in {"left", "kicked"}
          /\ new_status \in {"member", "administrator", "creator"} THEN "join"
  ELSE IF old_status \in {"member", "administrator", "creator"}
          /\ new_status \in {"left", "kicked"} THEN "leave"
  ELSE "skip"

UpdateKinds == {classify(b, o, n) : b \in BOOLEAN, o \in Statuses, n \in Statuses}

\* the invite links a join event in chat c can carry
ObservableLinks(c) ==
  {NoLink, ForeignLink} \cup {l \in 1..Len(invite_links) : invite_links[l].chat_id = c}

\* outcomes of Telegram's create_chat_invite_link: it can always fail; it is
\* taken to fail once MaxLinks links exist
CreateOutcomes == IF Len(invite_links) < MaxLinks THEN BOOLEAN ELSE {FALSE}

\* outcomes that matter to a handler that issues a link only when none is stored
IssueOutcomes(u) == IF stored_target_link(db, u) = NoLink THEN CreateOutcomes ELSE {FALSE}

\* what get_chat_member can report for u in c: the truth, or nothing (it raised)
SeenAsMember(u, c) == IF c \in Chats THEN {member[u][c], FALSE} ELSE {FALSE}

\* The store outlives the process: the bot starts on a fresh store, or on the
\* store left by an earlier run in which user 2 started the bot with user 1's
\* code for the target channel and has not joined yet.
EarlierRun ==
  LET ts == CHOOSE t \in Timestamps : TRUE
  IN handle_referral_join(EmptyStore, 2, generate_referral_code(1, TargetChannel, ts), FALSE)

Init ==
  /\ backend = "supabase"
  /\ db \in {EmptyStore, EarlierRun}
  /\ invite_links = <<>>
  /\ member = [u \in Users |-> [c \in Chats |-> FALSE]]
  /\ attributed = [u \in Users |-> [c \in Chats |-> {}]]
  /\ last = NoEvent
  /\ steps = 0
  /\ inflight = NoCalls
  /\ webhook_server = NoWebhook

Step(max) == /\ steps < max
             /\ steps' = steps + 1
             /\ UNCHANGED <<backend, inflight, webhook_server>>

\* track_chat_member for a join transition
UserJoin(c, u, link, apiOk) ==
  /\ Step(MaxSteps)
  /\ "join" \in UpdateKinds
  /\ ~member[u][c]
  /\ LET out == handle_user_join(db, invite_links, c, u, link, apiOk)
     IN /\ db' = out.db
        /\ invite_links' = out.il
        /\ last' = out.ev
        /\ attributed' = IF out.ev.referrer \in Users
                           THEN [attributed EXCEPT ![out.ev.referrer][c] = @ \cup {u}]
                           ELSE attributed
  /\ member' = [member EXCEPT ![u][c] = TRUE]

\* track_chat_member for a leave transition
UserLeave(c, u) ==
  /\ Step(MaxSteps)
  /\ "leave" \in UpdateKinds
  /\ member[u][c]
  /\ LET out == handle_user_leave(db, c, u)
     IN /\ db' = out.db
        /\ last' = out.ev
  /\ attributed' = [r \in Users |-> [attributed[r] EXCEPT ![c] = @ \ {u}]]
  /\ member' = [member EXCEPT ![u][c] = FALSE]
  /\ UNCHANGED invite_links

\* track_chat_member for a bot, or for a transition that is neither a join nor a leave
OtherMemberUpdate ==
  /\ Step(MaxSteps)
  /\ "skip" \in UpdateKinds
  /\ last' = [NoEvent EXCEPT !.op = "skip"]
  /\ UNCHANGED <<db, invite_links, member, attributed>>

\* start_command with a referral code: _handle_referral_join
StartReferral(u, p, isMember) ==
  /\ Step(MaxSteps)
  /\ last' = [NoEvent EXCEPT !.op = "start", !.user = u,
                             !.referrer = DecodedPayloads[p].referrer_id,
                             !.raised = referral_join_raises(p),
                             !.reply = referral_join_reply(u, p, isMember),
                             !.decoded = DecodedPayloads[p].kind]
  /\ db' = handle_referral_join(db, u, p, isMember)
  /\ UNCHANGED <<invite_links, member, attributed>>

\* start_command with getlink_<channel id>: _process_get_link
StartGetLink(u, c, apiOk) ==
  /\ Step(MaxSteps)
  /\ last' = [NoEvent EXCEPT !.op = "getlink"]
  /\ LET made == create_trackable_invite_link(db, invite_links, u, c, apiOk)
     IN db' = made.db /\ invite_links' = made.il
  /\ UNCHANGED <<member, attributed>>

\* start_command without payload in a private chat
StartPlain(u, apiOk) ==
  /\ Step(MaxSteps)
  /\ last' = [NoEvent EXCEPT !.op = "plain"]
  /\ LET referral_link == stored_target_link(db, u)
         made == IF referral_link = NoLink
                   THEN create_trackable_invite_link(db, invite_links, u, TargetChannel, apiOk)
                   ELSE [db |-> db, il |-> invite_links, link |-> referral_link]
     IN db' = made.db /\ invite_links' = made.il
  /\ UNCHANGED <<member, attributed>>

\* start_command that only replies: getlink_<not a number>, or no payload in a group
StartReply ==
  /\ Step(MaxSteps)
  /\ last' = [NoEvent EXCEPT !.op = "reply"]
  /\ UNCHANGED <<db, invite_links, member, attributed>>

Next ==
  \/ \E c \in Channels, u \in Users :
       \E link \in ObservableLinks(c), apiOk \in IssueOutcomes(u) : UserJoin(c, u, link, apiOk)
  \/ \E c \in Channels, u \in Users : UserLeave(c, u)
  \/ OtherMemberUpdate
  \/ \E u \in Users, p \in CodePayloads :
       \E isMember \in SeenAsMember(u, DecodedPayloads[p].channel_id) :
         StartReferral(u, p, isMember)
  \/ \E u \in Users, c \in Channels, apiOk \in CreateOutcomes : StartGetLink(u, c, apiOk)
  \/ \E u \in Users : \E apiOk \in IssueOutcomes(u) : StartPlain(u, apiOk)
  \/ StartReply

Spec == Init /\ [][Next]_vars

\* ------------------------------------------------------- the engine alone
EngineInit ==
  /\ backend \in {"file", "supabase"}
  /\ db = EmptyStore
  /\ invite_links = <<>>
  /\ member = [u \in Users |-> [c \in Chats |-> FALSE]]
  /\ attributed = [u \in Users |-> [c \in Chats |-> {}]]
  /\ last = NoEvent
  /\ steps = 0
  /\ inflight = NoCalls
  /\ webhook_server = NoWebhook

\* ReferralManager.process_successful_referral called directly
EngineCredit(r, c, u) ==
  /\ Step(MaxCalls)
  /\ LET res == process_successful_referral(backend, db, r, c, u)
     IN /\ db' = res.db
        /\ last' = [op |-> "credit", user |-> u, chan |-> c, referrer |-> r, link |-> NoLink,
                    called |-> TRUE, raised |-> res.raised, wrote |-> res.wrote, ret |-> res.ret, reply |-> "none",
                    decoded |-> "none", fault |-> "none", sends |-> <<>>, now |-> 0, update |-> NoUpdate]
  /\ UNCHANGED <<invite_links, member, attributed>>

\* ReferralManager.process_referral_leave called directly
EngineLeave(r, c, u) ==
  /\ Step(MaxCalls)
  /\ LET res == process_referral_leave(backend, db, r, c, u)
     IN /\ db' = res.db
        /\ last' = [op |-> "unrefer", user |-> u, chan |-> c, referrer |-> r, link |-> NoLink,
                    called |-> TRUE, raised |-> res.raised, wrote |-> res.wrote, ret |-> res.ret, reply |-> "none",
                    decoded |-> "none", fault |-> "none", sends |-> <<>>, now |-> 0, update |-> NoUpdate]
  /\ UNCHANGED <<invite_links, member, attributed>>

\* ReferralManager.claim_reward called directly
EngineClaim(u, c) ==
  /\ Step(MaxCalls)
  /\ LET res == claim_reward(backend, db, u, c)
     IN /\ db' = res.db
        /\ last' = [op |-> "claim", user |-> u, chan |-> c, referrer |-> NoUser, link |-> NoLink,
                    called |-> TRUE, raised |-> res.raised, wrote |-> res.wrote, ret |-> res.ret, reply |-> "none",
                    decoded |-> "none", fault |-> "none", sends |-> <<>>, now |-> 0, update |-> NoUpdate]
  /\ UNCHANGED <<invite_links, member, attributed>>

EngineNext ==
  \/ \E r \in Users, c \in Channels, u \in Users : EngineCredit(r, c, u)
  \/ \E r \in Users, c \in Channels, u \in Users : EngineLeave(r, c, u)
  \/ \E u \in Users, c \in Channels : EngineClaim(u, c)

EngineSpec == EngineInit /\ [][EngineNext]_vars

\* ------------------------------------------- the engine on a grown store
\* the flat-file store after n joins of user 2 were credited to user 1 in the
\* target channel: what n calls process_successful_referral(1, target, 2) leave
Credited(n) ==
  IF n = 0 THEN EmptyStore
  ELSE [EmptyStore EXCEPT
          !.users = <<1>>,
          !.chan[1][TargetChannel] =
            [NewChannelData EXCEPT
               !.successful_referrals = n,
               !.referred_users = [i \in 1..n |-> 2],
               !.referral_history = [i \in 1..n |-> [user_id |-> 2, action |-> "joined"]]]]

\* ... and user 1 then claimed k times
RECURSIVE Redeemed(_, _)
Redeemed(n, k) ==
  IF k = 0 THEN Credited(n)
  ELSE LET before == Redeemed(n, k - 1)
       IN claim_reward("file", before, 1, TargetChannel).db

\* migrate_users_and_channels: users.json copied into the relational store, for
\* channels registered in channels.json; pending referrals are not migrated
migrate_users_and_channels(s) ==
  [EmptyStore EXCEPT
     !.users = s.users,
     !.chan = [u \in Users |-> [c \in Chats |->
                 IF s.chan[u][c].present THEN SupabaseChannelRow(s.chan[u][c])
                 ELSE AbsentChannelData]]]

\* counts around each multiple of the target, and one between two multiples
ReferralCounts ==
  {0} \cup {k * REFERRAL_TARGET - 1 : k \in 1..MaxRewards}
      \cup {k * REFERRAL_TARGET : k \in 1..MaxRewards}
      \cup {MaxRewards * REFERRAL_TARGET + 5}

RewardStores(be) ==
  {IF be = "file" THEN Redeemed(n, k) ELSE migrate_users_and_channels(Redeemed(n, k)) :
     n \in ReferralCounts, k \in 0..MaxRewards}

RewardInit ==
  /\ backend \in {"file", "supabase"}
  /\ db \in RewardStores(backend)
  /\ invite_links = <<>>
  /\ member = [u \in Users |-> [c \in Chats |-> FALSE]]
  /\ attributed = [u \in Users |-> [c \in Chats |-> {}]]
  /\ last = NoEvent
  /\ steps = 0
  /\ inflight = NoCalls
  /\ webhook_server = NoWebhook

RewardNext == steps < MaxRewardCalls /\ EngineNext

RewardSpec == RewardInit /\ [][RewardNext]_vars

\* ------------------------------------------------ the bot on a migrated store
\* handle_callback with "claim_<channel id>": _process_reward_claim
ClaimCallback(u, c) ==
  /\ Step(MaxSteps)
  /\ LET res == claim_reward("supabase", db, u, c)
     IN /\ db' = res.db
        /\ last' = [NoEvent EXCEPT !.op = "claim", !.user = u, !.chan = c,
                                   !.called = TRUE, !.wrote = res.wrote, !.ret = res.ret]
  /\ UNCHANGED <<invite_links, member, attributed>>

\* claim_command: reads the target channel's count and replies
ClaimCommand ==
  /\ Step(MaxSteps)
  /\ last' = [NoEvent EXCEPT !.op = "claim_command"]
  /\ UNCHANGED <<db, invite_links, member, attributed>>

\* the relational store the bot starts on after the migration of a flat-file
\* store in which user 1 had earned MaxRewards rewards and claimed all but one
RewardBotInit ==
  /\ backend = "supabase"
  /\ db = migrate_users_and_channels(
            Redeemed(MaxRewards * REFERRAL_TARGET, MaxRewards - 1))
  /\ invite_links = <<>>
  /\ member = [u \in Users |-> [c \in Chats |-> FALSE]]
  /\ attributed = [u \in Users |-> [c \in Chats |-> {}]]
  /\ last = NoEvent
  /\ steps = 0
  /\ inflight = NoCalls
  /\ webhook_server = NoWebhook

RewardBotNext ==
  /\ steps < MaxRewardSteps
  /\ \/ Next
     \/ \E u \in Users, c \in Channels : ClaimCallback(u, c)
     \/ ClaimCommand

RewardBotSpec == RewardBotInit /\ [][RewardBotNext]_vars

\* n consecutive claim_reward(u, c) calls: the store afterwards and, per call,
\* whether it succeeded
RECURSIVE claim_repeatedly(_, _, _, _, _)
claim_repeatedly(be, s, u, c, n) ==
  IF n = 0 THEN [db |-> s, outcomes |-> <<>>]
  ELSE LET res == claim_reward(be, s, u, c)
           rest == claim_repeatedly(be, res.db, u, c, n - 1)
       IN [db |-> rest.db, outcomes |-> <<res.wrote>> \o rest.outcomes]

TypeOK ==
  /\ backend \in {"supabase", "file"}
  /\ Len(invite_links) <= MaxLinks
  /\ \A u \in Users, c \in Channels : db.pending[u][c] \in Users \cup {NoUser, OutsideUser}

\* -------------------------------------------------------- the codec alone
\* user ids of one, two and three digits: the JSON text then has every length
\* modulo 3 and the code every padding
CodecUsers == Users \cup {12, 123}

\* characters put in the place of a character of a code: 'A' and 'M'
SubstituteChars == {65, 77}

\* payloads nobody generated
CraftedCodes ==
  {url_safe_code(MissingTimestampText), url_safe_code(FieldNamesArrayText),
   url_safe_code(FieldNamesStringText), url_safe_code(NumberText), JunkCode}

\* a code about to be decoded: how it was obtained, and from whose code
CodecInput(how, r, c, code) ==
  [op |-> "code", how |-> how, user |-> r, chan |-> c, code |-> code, result |-> InvalidCode]

\* the codes handed to decode_referral_code: generated ones, intact or damaged
\* by truncation, by a substituted character or by two adjacent characters
\* changing places, and crafted ones
CodecInputs ==
  UNION {LET code == generate_referral_code(r, c, ts)
         IN {CodecInput("intact", r, c, code)}
              \cup {CodecInput("truncated", r, c, SubSeq(code, 1, n)) : n \in 0..(Len(code) - 1)}
              \cup UNION {{CodecInput("substituted", r, c, [code EXCEPT ![i] = ch]) :
                             ch \in SubstituteChars \ {code[i]}} : i \in 1..Len(code)}
              \cup {CodecInput("reordered", r, c,
                               [code EXCEPT ![i] = code[i + 1], ![i + 1] = code[i]]) :
                      i \in {j \in 1..(Len(code) - 1) : code[j] # code[j + 1]}}
           : r \in CodecUsers, c \in Channels, ts \in Timestamps}
    \cup {CodecInput("crafted", NoUser, TargetChannel, t) : t \in CraftedCodes}

CodecInit ==
  /\ backend = "supabase"
  /\ db = EmptyStore
  /\ invite_links = <<>>
  /\ member = [u \in Users |-> [c \in Chats |-> FALSE]]
  /\ attributed = [u \in Users |-> [c \in Chats |-> {}]]
  /\ last \in CodecInputs
  /\ steps = 0
  /\ inflight = NoCalls
  /\ webhook_server = NoWebhook

\* utils.decode_referral_code called on the code
DecodeCode ==
  /\ last.op = "code"
  /\ last' = [last EXCEPT !.op = "decode", !.result = decode_referral_code(last.code)]
  /\ UNCHANGED <<backend, db, invite_links, member, attributed, steps, inflight, webhook_server>>

CodecNext == DecodeCode

CodecSpec == CodecInit /\ [][CodecNext]_vars

\* ------------------------------------------ bot instances on one store
\* Instances share the store and nothing else.  A call of
\* process_successful_referral is two steps, its get_user_data and its
\* save_user_data; each of the two is taken as one access of the store.

\* process_successful_referral between the two: the update, in memory, of the
\* record that was read; seen is the count that was read
credit_in_memory(got, c, u) ==
  LET referrer_data == IF got.found THEN got ELSE EmptyUserData
      cd0 == IF referrer_data.channels[c].present
               THEN referrer_data.channels[c] ELSE NewChannelData
  IN IF ~cd0.has_history
       THEN [raised |-> TRUE, seen |-> cd0.successful_referrals, data |-> referrer_data]
       ELSE [raised |-> FALSE, seen |-> cd0.successful_referrals,
             data |-> [referrer_data EXCEPT !.channels[c] =
                         [cd0 EXCEPT
                            !.successful_referrals = @ + 1,
                            !.referred_users = Append(@, u),
                            !.referral_history = Append(@, [user_id |-> u, action |-> "joined"])]]]

\* variant: the record is read again at the moment it is written
write_back_recomputed(be, s, r, c, u, data) ==
  process_successful_referral(be, s, r, c, u).db

\* the save_user_data that ends process_successful_referral(r, c, u)
write_back(be, s, r, c, u, data) == save_user_data(be, s, r, data)

\* the store is empty, or user 1 was credited once for the target channel
RaceStores(be) ==
  {EmptyStore, process_successful_referral(be, EmptyStore, 1, TargetChannel, 2).db}

RaceInit ==
  /\ backend \in {"file", "supabase"}
  /\ db \in RaceStores(backend)
  /\ invite_links = <<>>
  /\ member = [u \in Users |-> [c \in Chats |-> FALSE]]
  /\ attributed = [u \in Users |-> [c \in Chats |-> {}]]
  /\ last = NoEvent
  /\ steps = 0
  /\ inflight = NoCalls
  /\ webhook_server = NoWebhook

\* instance i enters process_successful_referral(r, c, u): it reads r's record
\* and updates its copy, or raises KeyError doing so
CreditRead(i, r, c, u) ==
  /\ inflight[i].pc = "idle"
  /\ LET mem == credit_in_memory(get_user_data(backend, db, r), c, u)
     IN inflight' = [inflight EXCEPT ![i] =
                       [pc |-> IF mem.raised THEN "raised" ELSE "read",
                        referrer |-> r, chan |-> c, user |-> u,
                        seen |-> mem.seen, data |-> mem.data,
                        file |-> "none", holds |-> FALSE]]
  /\ UNCHANGED <<backend, db, invite_links, member, attributed, last, steps, webhook_server>>

\* instance i saves its copy and returns
CreditWrite(i) ==
  /\ inflight[i].pc = "read"
  /\ db' = write_back(backend, db, inflight[i].referrer, inflight[i].chan,
                      inflight[i].user, inflight[i].data)
  /\ inflight' = [inflight EXCEPT ![i].pc = "done"]
  /\ UNCHANGED <<backend, invite_links, member, attributed, last, steps, webhook_server>>

RaceNext ==
  \/ \E i \in Instances, r \in Users, c \in Channels, u \in Users : CreditRead(i, r, c, u)
  \/ \E i \in Instances : CreditWrite(i)

RaceSpec == RaceInit /\ [][RaceNext]_vars

\* ------------------------------------------ the two adapters side by side
\* The same engine calls are made on a flat-file store and on a relational
\* store: db holds the two stores, and last.raised tells whether any call so
\* far ended in an exception on either of them.

\* leave handling: find_referrer, then process_referral_leave for the referrer found
leave_handling(be, s, c, u) ==
  LET referrer_id == find_referrer(be, s, c, u)
  IN IF referrer_id # NoUser THEN process_referral_leave(be, s, referrer_id, c, u)
     ELSE [db |-> s, raised |-> FALSE, wrote |-> FALSE, ret |-> 0]

TwinInit ==
  /\ backend = "both"
  /\ db = [file |-> EmptyStore, supabase |-> EmptyStore]
  /\ invite_links = <<>>
  /\ member = [u \in Users |-> [c \in Chats |-> FALSE]]
  /\ attributed = [u \in Users |-> [c \in Chats |-> {}]]
  /\ last = NoEvent
  /\ steps = 0
  /\ inflight = NoCalls
  /\ webhook_server = NoWebhook

\* the record of one call made on both stores, with its two outcomes
TwinEvent(op, onFile, onSupabase) ==
  [NoEvent EXCEPT !.op = op,
                  !.raised = last.raised \/ onFile.raised \/ onSupabase.raised]

TwinCredit(r, c, u) ==
  /\ Step(MaxCalls)
  /\ LET onFile == process_successful_referral("file", db.file, r, c, u)
         onSupabase == process_successful_referral("supabase", db.supabase, r, c, u)
     IN /\ db' = [file |-> onFile.db, supabase |-> onSupabase.db]
        /\ last' = TwinEvent("credit", onFile, onSupabase)
  /\ UNCHANGED <<invite_links, member, attributed>>

TwinLeave(c, u) ==
  /\ Step(MaxCalls)
  /\ LET onFile == leave_handling("file", db.file, c, u)
         onSupabase == leave_handling("supabase", db.supabase, c, u)
     IN /\ db' = [file |-> onFile.db, supabase |-> onSupabase.db]
        /\ last' = TwinEvent("leave", onFile, onSupabase)
  /\ UNCHANGED <<invite_links, member, attributed>>

TwinClaim(u, c) ==
  /\ Step(MaxCalls)
  /\ LET onFile == claim_reward("file", db.file, u, c)
         onSupabase == claim_reward("supabase", db.supabase, u, c)
     IN /\ db' = [file |-> onFile.db, supabase |-> onSupabase.db]
        /\ last' = TwinEvent("claim", onFile, onSupabase)
  /\ UNCHANGED <<invite_links, member, attributed>>

TwinNext ==
  \/ \E r \in Users, c \in Channels, u \in Users : TwinCredit(r, c, u)
  \/ \E c \in Channels, u \in Users : TwinLeave(c, u)
  \/ \E u \in Users, c \in Channels : TwinClaim(u, c)

TwinSpec == TwinInit /\ [][TwinNext]_vars

\* successful_referrals and rewards_claimed of every (user, channel) as
\* get_user_data shows them; a missing record counts as 0 and 0
ObservedCounters(be, s) ==
  [u \in Users |-> [c \in Chats |->
     LET got == get_user_data(be, s, u)
     IN IF got.found /\ got.channels[c].present
          THEN <<got.channels[c].successful_referrals, got.channels[c].rewards_claimed>>
          ELSE <<0, 0>>]]

\* ------------------------------ a backend call that fails during a credit
\* Every method of the relational adapter is a few calls to the backend
\* inside one try block; a call that fails ends the method, which logs the
\* exception and returns.

\* the calls of one process_successful_referral: the two selects of
\* get_user_data, the profile upsert of save_user_data and its channel upserts
Faults == {"none", "select_user", "select_channels", "upsert_profile", "upsert_channel"}

\* SupabaseManager.get_user_data when the named call fails: None
get_user_data_under(fault, s, u) ==
  IF fault = "select_user" THEN NoUserData
  ELSE IF fault = "select_channels" /\ u \in SeqToSet(s.users) THEN NoUserData
  ELSE get_user_data("supabase", s, u)

\* SupabaseManager.save_user_data when the named call fails; at is the channel
\* whose upsert fails.  The loop writes the channels in the order of the dict,
\* which has the credited channel c last: the rows before the failing one are
\* written, the failing one and those after it are not.
save_user_data_under(fault, at, c, s, u, data) ==
  IF fault = "upsert_profile" THEN s
  ELSE IF fault = "upsert_channel" /\ at = c
    THEN save_user_data("supabase", s, u, [data EXCEPT !.channels[c] = AbsentChannelData])
  ELSE IF fault = "upsert_channel" THEN ensure_user_exists(s, u)
  ELSE save_user_data("supabase", s, u, data)

\* process_successful_referral on the relational adapter when the named call
\* fails; failed: the call was made, so the failure happened
process_successful_referral_under(fault, at, s, r, c, u) ==
  LET mem == credit_in_memory(get_user_data_under(fault, s, r), c, u)
  IN IF mem.raised
       THEN [db |-> s, raised |-> TRUE, wrote |-> FALSE, ret |-> 0, failed |-> FALSE]
       ELSE [db |-> save_user_data_under(fault, at, c, s, r, mem.data),
             raised |-> FALSE, wrote |-> TRUE, ret |-> mem.seen + 1,
             failed |-> \/ fault \in {"select_user", "upsert_profile"}
                        \/ fault = "select_channels" /\ r \in SeqToSet(s.users)
                        \/ fault = "upsert_channel" /\ mem.data.channels[at].present]

\* a migrated store, or one in which user 1 was credited once for the group
FaultStores ==
  RewardStores("supabase")
    \cup {process_successful_referral("supabase", EmptyStore, 1, GroupChannel, 2).db}

FaultInit ==
  /\ backend = "supabase"
  /\ db \in FaultStores
  /\ invite_links = <<>>
  /\ member = [u \in Users |-> [c \in Chats |-> FALSE]]
  /\ attributed = [u \in Users |-> [c \in Chats |-> {}]]
  /\ last = NoEvent
  /\ steps = 0
  /\ inflight = NoCalls
  /\ webhook_server = NoWebhook

\* process_successful_referral(r, c, u) during which the named call, if any, fails
FaultyCredit(r, c, u, fault, at) ==
  /\ Step(MaxFaultCalls)
  /\ LET res == process_successful_referral_under(fault, at, db, r, c, u)
     IN /\ fault = "none" \/ res.failed
        /\ db' = res.db
        /\ last' = [NoEvent EXCEPT !.op = "credit", !.user = u, !.chan = c, !.referrer = r,
                                   !.called = TRUE, !.raised = res.raised,
                                   !.wrote = res.wrote, !.ret = res.ret, !.fault = fault]
  /\ UNCHANGED <<invite_links, member, attributed>>

FaultNext ==
  \E r \in Users, c \in Channels, u \in Users, fault \in Faults :
    \E at \in (IF fault = "upsert_channel" THEN Channels ELSE {c}) :
      FaultyCredit(r, c, u, fault, at)

FaultSpec == FaultInit /\ [][FaultNext]_vars

\* ------------------------------------------ the messages of the join handler
\* A send is [to, ok]: whom the message is for and whether send_message
\* returned; each send_message of the handler is inside a try block.

\* variant: the fallback is posted whether the direct message went out or not
welcome_delivery_always_posted(dmOk, fbOk) ==
  <<[to |-> "user", ok |-> dmOk], [to |-> "channel", ok |-> fbOk]>>

\* the welcome at the end of _handle_user_join
welcome_delivery(dmOk, fbOk) ==
  IF dmOk THEN <<[to |-> "user", ok |-> TRUE]>>
  ELSE <<[to |-> "user", ok |-> FALSE], [to |-> "channel", ok |-> fbOk]>>

\* variant: a failed notification of the referrer ends the handler
join_messages_notification_raises(ev, notifyOk, dmOk, fbOk) ==
  IF ev.raised THEN <<>>
  ELSE IF ev.called /\ ~notifyOk THEN <<[to |-> "referrer", ok |-> FALSE]>>
  ELSE (IF ev.called THEN <<[to |-> "referrer", ok |-> TRUE]>> ELSE <<>>)
         \o welcome_delivery(dmOk, fbOk)

\* every send of _handle_user_join, in order: the notification of the
\* referrer after a credit, then the welcome; none when the credit raised
join_messages(ev, notifyOk, dmOk, fbOk) ==
  IF ev.raised THEN <<>>
  ELSE (IF ev.called THEN <<[to |-> "referrer", ok |-> notifyOk]>> ELSE <<>>)
         \o welcome_delivery(dmOk, fbOk)

\* outcomes of a send that is attempted only when sent holds
SendOutcomes(sent) == IF sent THEN BOOLEAN ELSE {TRUE}

\* track_chat_member for a join transition, with the outcome of every send
WelcomeJoin(c, u, link, apiOk, notifyOk, dmOk, fbOk) ==
  /\ Step(MaxWelcomeSteps)
  /\ "join" \in UpdateKinds
  /\ ~member[u][c]
  /\ LET out == handle_user_join(db, invite_links, c, u, link, apiOk)
     IN /\ notifyOk \in SendOutcomes(out.ev.called /\ ~out.ev.raised)
        /\ db' = out.db
        /\ invite_links' = out.il
        /\ last' = [out.ev EXCEPT !.sends = join_messages(out.ev, notifyOk, dmOk, fbOk)]
        /\ attributed' = IF out.ev.referrer \in Users
                           THEN [attributed EXCEPT ![out.ev.referrer][c] = @ \cup {u}]
                           ELSE attributed
  /\ member' = [member EXCEPT ![u][c] = TRUE]

\* the send of _handle_user_leave: the notification of the referrer found,
\* after process_referral_leave returned
leave_messages(ev, notifyOk) ==
  IF ev.called /\ ~ev.raised THEN <<[to |-> "referrer", ok |-> notifyOk]>> ELSE <<>>

\* track_chat_member for a leave transition, with the outcome of the send
WelcomeLeave(c, u, notifyOk) ==
  /\ Step(MaxWelcomeSteps)
  /\ "leave" \in UpdateKinds
  /\ member[u][c]
  /\ LET out == handle_user_leave(db, c, u)
     IN /\ notifyOk \in SendOutcomes(out.ev.called /\ ~out.ev.raised)
        /\ db' = out.db
        /\ last' = [out.ev EXCEPT !.sends = leave_messages(out.ev, notifyOk)]
  /\ attributed' = [r \in Users |-> [attributed[r] EXCEPT ![c] = @ \ {u}]]
  /\ member' = [member EXCEPT ![u][c] = FALSE]
  /\ UNCHANGED invite_links

WelcomeNext ==
  \/ \E c \in Channels, u \in Users :
       \E link \in ObservableLinks(c), apiOk \in IssueOutcomes(u) :
         \E notifyOk \in BOOLEAN, dmOk \in BOOLEAN :
           \E fbOk \in SendOutcomes(~dmOk) :
             WelcomeJoin(c, u, link, apiOk, notifyOk, dmOk, fbOk)
  \/ \E c \in Channels, u \in Users, notifyOk \in BOOLEAN : WelcomeLeave(c, u, notifyOk)
  \/ steps < MaxWelcomeSteps
       /\ \E u \in Users, c \in Channels, apiOk \in CreateOutcomes : StartGetLink(u, c, apiOk)

WelcomeSpec == Init /\ [][WelcomeNext]_vars

\* ------------------------------------------------------ the webhook server
\* WebhookServer as its methods are written.  run() initialises the
\* application on a loop of its own, which it closes, then makes a second
\* event loop, keeps it in self.loop and serves HTTP with Flask until the
\* process ends.  No method calls run_forever or run_until_complete on
\* self.loop, so the model has no step that takes a callback off it.

\* bodies of a POST: no JSON or an empty object, an object that is not an
\* update (Update.de_json raises), or the update with the given update_id
Bodies ==
  {[kind |-> "empty", update_id |-> 0], [kind |-> "malformed", update_id |-> 0]}
    \cup {[kind |-> "update", update_id |-> n] : n \in 1..MaxUpdateId}

\* the server once run() has reached app.run
Serving == [loop |-> "created", ready |-> <<>>, processed |-> <<>>, log |-> <<>>]

\* the route's function: the answer is logged, and for an update the
\* coroutine process_update(update) is handed to self.loop with
\* run_coroutine_threadsafe, which puts it among the loop's ready callbacks;
\* a coroutine is named by the position of its request in the log
webhook(w, body) ==
  IF body.kind = "empty" THEN [w EXCEPT !.log = Append(@, [body |-> body, status |-> 400])]
  ELSE IF body.kind = "malformed"
    THEN [w EXCEPT !.log = Append(@, [body |-> body, status |-> 500])]
  ELSE [w EXCEPT !.log = Append(@, [body |-> body, status |-> 200]),
                 !.ready = IF w.loop # "none" THEN Append(@, Len(w.log) + 1) ELSE @]

WebhookInit ==
  /\ backend = "supabase"
  /\ db = EmptyStore
  /\ invite_links = <<>>
  /\ member = [u \in Users |-> [c \in Chats |-> FALSE]]
  /\ attributed = [u \in Users |-> [c \in Chats |-> {}]]
  /\ last = NoEvent
  /\ steps = 0
  /\ inflight = NoCalls
  /\ webhook_server = Serving

\* Telegram posts a body to /webhook/<token>
Post(body) ==
  /\ Len(webhook_server.log) < MaxPosts
  /\ webhook_server' = webhook(webhook_server, body)
  /\ UNCHANGED <<backend, db, invite_links, member, attributed, last, steps, inflight>>

WebhookNext == \E body \in Bodies : Post(body)

WebhookSpec == WebhookInit /\ [][WebhookNext]_vars

\* Flask answers every request it has accepted
WebhookLiveSpec == WebhookSpec /\ WF_vars(WebhookNext)

\* ------------------------------------------- leaderboard and channel statistics
\* all_users is what get_all_users returned: the records in the order of the
\* store, as [user_id, data].

\* one entry of the leaderboard
BoardEntry(rec, c) ==
  [user_id |-> rec.user_id,
   referrals |-> rec.data.channels[c].successful_referrals,
   rewards_claimed |-> rec.data.channels[c].rewards_claimed]

\* the loop of get_leaderboard: the entries of the users with a record for c
\* and referrals > 0, in store order
RECURSIVE BoardEntries(_, _)
BoardEntries(all_users, c) ==
  IF all_users = <<>> THEN <<>>
  ELSE LET rec == Head(all_users)
           rest == BoardEntries(Tail(all_users), c)
       IN IF rec.data.channels[c].present /\ rec.data.channels[c].successful_referrals > 0
            THEN <<BoardEntry(rec, c)>> \o rest
            ELSE rest

\* e put into a list sorted by referrals, descending, behind the entries that
\* have as many referrals
RECURSIVE InsertDescending(_, _)
InsertDescending(sorted, e) ==
  IF sorted = <<>> THEN <<e>>
  ELSE IF Head(sorted).referrals >= e.referrals
    THEN <<Head(sorted)>> \o InsertDescending(Tail(sorted), e)
    ELSE <<e>> \o sorted

\* list.sort(key=referrals, reverse=True): stable, so entries with equal
\* referrals keep the order they had
RECURSIVE SortDescending(_)
SortDescending(entries) ==
  IF entries = <<>> THEN <<>>
  ELSE InsertDescending(SortDescending(SubSeq(entries, 1, Len(entries) - 1)),
                        entries[Len(entries)])

\* the slice list[:limit]
SliceTo(list, limit) ==
  IF limit >= 0
    THEN SubSeq(list, 1, IF limit < Len(list) THEN limit ELSE Len(list))
    ELSE SubSeq(list, 1, IF Len(list) + limit > 0 THEN Len(list) + limit ELSE 0)

\* variant: the entries are cut to the limit without being sorted
get_leaderboard_unsorted(all_users, c, limit) ==
  SliceTo(BoardEntries(all_users, c), limit)

get_leaderboard(all_users, c, limit) ==
  SliceTo(SortDescending(BoardEntries(all_users, c)), limit)

\* the accumulators of the full scan of get_channel_stats after all_users
RECURSIVE ScanTotals(_, _)
ScanTotals(all_users, c) ==
  IF all_users = <<>>
    THEN [total_users |-> 0, active_referrers |-> 0, total_referrals |-> 0,
          rewards_claimed |-> 0]
    ELSE LET before == ScanTotals(SubSeq(all_users, 1, Len(all_users) - 1), c)
             cd == all_users[Len(all_users)].data.channels[c]
         IN IF ~cd.present THEN before
            ELSE [total_users |-> before.total_users + 1,
                  active_referrers |-> before.active_referrers
                                         + (IF cd.successful_referrals > 0 THEN 1 ELSE 0),
                  total_referrals |-> before.total_referrals + cd.successful_referrals,
                  rewards_claimed |-> before.rewards_claimed + cd.rewards_claimed]

\* variant: every user with a record counts as an active referrer
scan_channel_stats_all_active(all_users, c) ==
  LET t == ScanTotals(all_users, c)
  IN [total_users |-> t.total_users, active_referrers |-> t.total_users,
      total_referrals |-> t.total_referrals, rewards_claimed |-> t.rewards_claimed,
      average_referrals_per_user |->
        <<t.total_referrals, IF t.total_users > 1 THEN t.total_users ELSE 1>>]

\* get_channel_stats by full scan; the average, a float, is kept as the pair
\* <<dividend, divisor>> of its division
scan_channel_stats(all_users, c) ==
  LET t == ScanTotals(all_users, c)
  IN [total_users |-> t.total_users, active_referrers |-> t.active_referrers,
      total_referrals |-> t.total_referrals, rewards_claimed |-> t.rewards_claimed,
      average_referrals_per_user |->
        <<t.total_referrals, IF t.total_users > 1 THEN t.total_users ELSE 1>>]

\* a record of users.json for one channel with the given counters
ScanChannelData(referrals, claimed) ==
  [NewChannelData EXCEPT !.successful_referrals = referrals, !.rewards_claimed = claimed]

\* the channels of one user: no record at all, a record for the target
\* channel with 0, 3, 5 or 12 referrals, or a record for the group only
ScanUserShapes ==
  {[c \in Chats |-> AbsentChannelData]}
    \cup {[c \in Chats |-> IF c = TargetChannel THEN ScanChannelData(n, n \div REFERRAL_TARGET)
                              ELSE AbsentChannelData] : n \in {0, 3, 5, 12}}
    \cup {[c \in Chats |-> IF c = GroupChannel THEN ScanChannelData(5, 0)
                              ELSE AbsentChannelData]}

\* the user dicts of up to MaxScanUsers users; user i is the i-th of the store
ScanUsers ==
  UNION {[1..n -> ScanUserShapes] : n \in 0..MaxScanUsers}

\* the limits asked for: small ones and the default
Limits == 0..MaxLimit \cup {10}

\* a call about to be made: the users of the store, the channel, the limit
ScanInputs ==
  {[op |-> "scan",
    all_users |-> [i \in 1..Len(shapes) |->
                     [user_id |-> i, data |-> [found |-> TRUE, channels |-> shapes[i]]]],
    chan |-> c, limit |-> limit, board |-> <<>>,
    stats |-> scan_channel_stats(<<>>, c)] :
     shapes \in ScanUsers, c \in Channels, limit \in Limits}

ScanInit ==
  /\ backend = "file"
  /\ db = EmptyStore
  /\ invite_links = <<>>
  /\ member = [u \in Users |-> [c \in Chats |-> FALSE]]
  /\ attributed = [u \in Users |-> [c \in Chats |-> {}]]
  /\ last \in ScanInputs
  /\ steps = 0
  /\ inflight = NoCalls
  /\ webhook_server = NoWebhook

\* ReferralManager.get_leaderboard(chan, limit)
Leaderboard ==
  /\ last.op = "scan"
  /\ last' = [last EXCEPT !.op = "leaderboard",
                          !.board = get_leaderboard(last.all_users, last.chan, last.limit)]
  /\ UNCHANGED <<backend, db, invite_links, member, attributed, steps, inflight, webhook_server>>

\* ReferralManager.get_channel_stats(chan) on an adapter that has no
\* get_channel_aggregate_stats
ChannelStats ==
  /\ last.op = "scan"
  /\ last' = [last EXCEPT !.op = "stats",
                          !.stats = scan_channel_stats(last.all_users, last.chan)]
  /\ UNCHANGED <<backend, db, invite_links, member, attributed, steps, inflight, webhook_server>>

ScanNext == Leaderboard \/ ChannelStats

ScanSpec == ScanInit /\ [][ScanNext]_vars

\* the loop of get_channel_aggregate_stats over the rows of the channel: the
\* sums and the number of rows with referrals; rows is the set of users that
\* have a row for c
RECURSIVE AggregateTotals(_, _, _)
AggregateTotals(s, c, rows) ==
  IF rows = {}
    THEN [active_referrers |-> 0, total_referrals |-> 0, rewards_claimed |-> 0]
    ELSE LET u == CHOOSE v \in rows : TRUE
             before == AggregateTotals(s, c, rows \ {u})
             refs == s.chan[u][c].successful_referrals
         IN [active_referrers |-> before.active_referrers + (IF refs > 0 THEN 1 ELSE 0),
             total_referrals |-> before.total_referrals + refs,
             rewards_claimed |-> before.rewards_claimed + s.chan[u][c].rewards_claimed]

\* SupabaseManager.get_channel_aggregate_stats: the count of the rows of
\* telegram_user_channels for c, and the totals over them
get_channel_aggregate_stats(s, c) ==
  LET rows == {u \in Users : s.chan[u][c].present}
      t == AggregateTotals(s, c, rows)
  IN [total_users |-> Cardinality(rows), active_referrers |-> t.active_referrers,
      total_referrals |-> t.total_referrals, rewards_claimed |-> t.rewards_claimed]

\* ------------------------------------------------- threads on the data files
\* One process on the flat-file adapter: inflight[i] is thread i.  Every
\* accessor of DataManager takes self.lock for its whole body; the functions
\* of the bot that keep data/invite_links.json open the file with no lock, and
\* so does backup_data when it copies the four files of the adapter.

\* the files DataManager keeps
AdapterFiles == {"users.json", "channels.json", "referrals.json", "pending.json"}

MappingFile == "invite_links.json"

\* some thread is inside "with self.lock"
LockHeld == \E i \in Instances : inflight[i].holds

\* thread i has its file open, reading or writing it
FileOpen(i) == inflight[i].pc \in {"accessor", "mapping", "backup"}

LockInit ==
  /\ backend = "file"
  /\ db = EmptyStore
  /\ invite_links = <<>>
  /\ member = [u \in Users |-> [c \in Chats |-> FALSE]]
  /\ attributed = [u \in Users |-> [c \in Chats |-> {}]]
  /\ last = NoEvent
  /\ steps = 0
  /\ inflight = NoCalls
  /\ webhook_server = NoWebhook

\* thread i enters an accessor of DataManager for file f: it gets the lock,
\* which no other thread holds
AccessorEnter(i, f) ==
  /\ inflight[i].pc = "idle"
  /\ ~LockHeld
  /\ inflight' = [inflight EXCEPT ![i] = [Idle EXCEPT !.pc = "locked", !.file = f,
                                                      !.holds = TRUE]]
  /\ UNCHANGED <<backend, db, invite_links, member, attributed, last, steps, webhook_server>>

\* thread i, in an accessor, opens its file with _load_json or _save_json
AccessorOpen(i) ==
  /\ inflight[i].pc = "locked"
  /\ inflight' = [inflight EXCEPT ![i].pc = "accessor"]
  /\ UNCHANGED <<backend, db, invite_links, member, attributed, last, steps, webhook_server>>

\* thread i is in _get_referrer_from_link or _store_invite_link_mapping and
\* opens the mapping file
MappingOpen(i) ==
  /\ inflight[i].pc = "idle"
  /\ inflight' = [inflight EXCEPT ![i] = [Idle EXCEPT !.pc = "mapping", !.file = MappingFile]]
  /\ UNCHANGED <<backend, db, invite_links, member, attributed, last, steps, webhook_server>>

\* thread i is in backup_data and copies file f
BackupCopy(i, f) ==
  /\ inflight[i].pc = "idle"
  /\ inflight' = [inflight EXCEPT ![i] = [Idle EXCEPT !.pc = "backup", !.file = f]]
  /\ UNCHANGED <<backend, db, invite_links, member, attributed, last, steps, webhook_server>>

\* thread i closes its file and leaves the function, releasing the lock if it
\* holds it
AccessDone(i) ==
  /\ inflight[i].pc \in {"accessor", "mapping", "backup"}
  /\ inflight' = [inflight EXCEPT ![i] = Idle]
  /\ UNCHANGED <<backend, db, invite_links, member, attributed, last, steps, webhook_server>>

LockNext ==
  \/ \E i \in Instances, f \in AdapterFiles : AccessorEnter(i, f)
  \/ \E i \in Instances : AccessorOpen(i)
  \/ \E i \in Instances : MappingOpen(i)
  \/ \E i \in Instances, f \in AdapterFiles : BackupCopy(i, f)
  \/ \E i \in Instances : AccessDone(i)

LockSpec == LockInit /\ [][LockNext]_vars

\* ------------------------------------------- pending referrals overwritten
\* The store an earlier run left: empty, or holding the row and the mapping
\* of the link user 1 asked for in the target channel.
LinkedRun == create_trackable_invite_link(EmptyStore, <<>>, 1, TargetChannel, TRUE)

PendingInit ==
  /\ backend = "supabase"
  /\ \/ db = EmptyStore /\ invite_links = <<>>
     \/ db = LinkedRun.db /\ invite_links = LinkedRun.il
  /\ member = [u \in Users |-> [c \in Chats |-> FALSE]]
  /\ attributed = [u \in Users |-> [c \in Chats |-> {}]]
  /\ last = NoEvent
  /\ steps = 0
  /\ inflight = NoCalls
  /\ webhook_server = NoWebhook

\* /start with a code of a user or of the outside user, and joins
PendingNext ==
  \/ \E u \in Users :
       \E p \in {generate_referral_code(r, c, ts) :
                   r \in Users \cup {OutsideUser}, c \in Channels, ts \in Timestamps} :
         \E isMember \in SeenAsMember(u, DecodedPayloads[p].channel_id) :
           StartReferral(u, p, isMember)
  \/ \E c \in Channels, u \in Users :
       \E link \in ObservableLinks(c), apiOk \in IssueOutcomes(u) : UserJoin(c, u, link, apiOk)

PendingSpec == PendingInit /\ [][PendingNext]_vars

\* --------------------------------------- the flat-file pending expiry sweep
\* age_hours = (current_time - timestamp) / 3600
SecondsPerHour == 3600

MaxAgeHours == 2

MaxSweepSteps == 4

\* DataManager.add_pending_referral: the entry of key "<user>_<channel>" is
\* replaced and stamped with utils.get_current_timestamp()
file_add_pending_referral(s, u, c, r, now) ==
  [s EXCEPT !.pending[u][c] = r, !.pending_time[u][c] = now]

\* DataManager.register_channel
register_channel(s, c) == [s EXCEPT !.channels = @ \cup {c}]

\* DataManager.store_referral_code: referrals[referral_code] is replaced
store_referral_code(s, code, u, c) ==
  [s EXCEPT !.codes = {e \in @ : e.code # code}
                        \cup {[code |-> code, user_id |-> u, channel_id |-> c]}]

\* the test of the sweep's loop: age_hours > max_age_hours, where age_hours is
\* the quotient (current_time - timestamp) / 3600 of two integers; the quotient
\* exceeds the integer max_age_hours exactly when the dividend exceeds
\* 3600 * max_age_hours
IsExpired(s, u, c, max_age_hours, current_time) ==
  /\ s.pending[u][c] # NoUser
  /\ current_time - s.pending_time[u][c] > SecondsPerHour * max_age_hours

expired_keys(s, max_age_hours, current_time) ==
  {k \in Users \X Chats : IsExpired(s, k[1], k[2], max_age_hours, current_time)}

\* variant: an entry whose age equals the limit is removed as well
cleanup_old_pending_referrals_inclusive(s, max_age_hours, current_time) ==
  LET gone == {k \in Users \X Chats :
                 /\ s.pending[k[1]][k[2]] # NoUser
                 /\ current_time - s.pending_time[k[1]][k[2]]
                      >= SecondsPerHour * max_age_hours}
  IN [s EXCEPT !.pending = [u \in Users |-> [c \in Chats |->
                              IF <<u, c>> \in gone THEN NoUser ELSE s.pending[u][c]]],
               !.pending_time = [u \in Users |-> [c \in Chats |->
                              IF <<u, c>> \in gone THEN 0 ELSE s.pending_time[u][c]]]]

\* DataManager.cleanup_old_pending_referrals
cleanup_old_pending_referrals(s, max_age_hours, current_time) ==
  LET gone == expired_keys(s, max_age_hours, current_time)
  IN [s EXCEPT !.pending = [u \in Users |-> [c \in Chats |->
                              IF <<u, c>> \in gone THEN NoUser ELSE s.pending[u][c]]],
               !.pending_time = [u \in Users |-> [c \in Chats |->
                              IF <<u, c>> \in gone THEN 0 ELSE s.pending_time[u][c]]]]

\* the clock when an entry is written, and when the sweep runs
StampTimes == {0, 1}

SweepTimes == {1, SecondsPerHour * MaxAgeHours, SecondsPerHour * MaxAgeHours + 1}

SweepCode == generate_referral_code(1, TargetChannel, 1793545337)

SweepInit ==
  /\ backend = "file"
  /\ db = EmptyStore
  /\ invite_links = <<>>
  /\ member = [u \in Users |-> [c \in Chats |-> FALSE]]
  /\ attributed = [u \in Users |-> [c \in Chats |-> {}]]
  /\ last = NoEvent
  /\ steps = 0
  /\ inflight = NoCalls
  /\ webhook_server = NoWebhook

AddPending(u, c, r, now) ==
  /\ Step(MaxSweepSteps)
  /\ db' = file_add_pending_referral(db, u, c, r, now)
  /\ last' = [NoEvent EXCEPT !.op = "add_pending", !.user = u, !.chan = c,
                             !.referrer = r, !.called = TRUE, !.wrote = TRUE, !.now = now]
  /\ UNCHANGED <<invite_links, member, attributed>>

\* the join handler's use of the entry of the joiner: read it, and remove it
\* when there is one
JoinRemoval(u, c) ==
  /\ Step(MaxSweepSteps)
  /\ get_pending_referral(db, u, c) # NoUser
  /\ db' = remove_pending_referral(db, u, c)
  /\ last' = [NoEvent EXCEPT !.op = "join_removal", !.user = u, !.chan = c,
                             !.referrer = get_pending_referral(db, u, c),
                             !.called = TRUE, !.wrote = TRUE]
  /\ UNCHANGED <<invite_links, member, attributed>>

Sweep(max_age_hours, now) ==
  /\ Step(MaxSweepSteps)
  /\ db' = cleanup_old_pending_referrals(db, max_age_hours, now)
  /\ last' = [NoEvent EXCEPT !.op = "sweep", !.called = TRUE, !.ret = max_age_hours,
                             !.wrote = (expired_keys(db, max_age_hours, now) # {}),
                             !.now = now]
  /\ UNCHANGED <<invite_links, member, attributed>>

RegisterChannel(c) ==
  /\ Step(MaxSweepSteps)
  /\ db' = register_channel(db, c)
  /\ last' = [NoEvent EXCEPT !.op = "register_channel", !.chan = c,
                             !.called = TRUE, !.wrote = TRUE]
  /\ UNCHANGED <<invite_links, member, attributed>>

StoreCode(code, u, c) ==
  /\ Step(MaxSweepSteps)
  /\ db' = store_referral_code(db, code, u, c)
  /\ last' = [NoEvent EXCEPT !.op = "store_code", !.user = u, !.chan = c,
                             !.called = TRUE, !.wrote = TRUE]
  /\ UNCHANGED <<invite_links, member, attributed>>

SweepCredit(r, c, u) ==
  /\ steps < MaxSweepSteps
  /\ EngineCredit(r, c, u)

SweepNext ==
  \/ \E u \in Users, c \in Channels, now \in StampTimes :
       \E r \in Users \ {u} : AddPending(u, c, r, now)
  \/ \E u \in Users, c \in Channels : JoinRemoval(u, c)
  \/ \E max_age_hours \in 0..MaxAgeHours, now \in SweepTimes : Sweep(max_age_hours, now)
  \/ RegisterChannel(TargetChannel)
  \/ StoreCode(SweepCode, 1, TargetChannel)
  \/ SweepCredit(1, TargetChannel, 2)

SweepSpec == SweepInit /\ [][SweepNext]_vars

\* ------------------------------------------- chat-member updates, classified
MaxMemberSteps == 1

ALLOWED_CHAT_IDS == {TargetChannel, GroupChannel}

\* chat.type of the chats: the official channel, its discussion group, and a
\* group the bot was added to
ChatType(c) == IF c = TargetChannel THEN "channel" ELSE "supergroup"

\* the security check of track_chat_member: it logs a warning and goes on
\* (the lines that leave the chat and return are commented out)
security_warning(chat_type, c) ==
  chat_type \in {"group", "supergroup", "channel"} /\ c \notin ALLOWED_CHAT_IDS

\* the account of another bot, the subject of an update with user.is_bot set
BotAccount == 13

\* user 2 started the bot with user 1's code for the chat that is not
\* allow-listed and has not joined yet
OutsideRun ==
  LET ts == CHOOSE t \in Timestamps : TRUE
  IN handle_referral_join(EmptyStore, 2, generate_referral_code(1, OutsideChat, ts), FALSE)

\* user 2 then joined the target channel: user 1 has one referral
CreditedRun == handle_user_join(EarlierRun, <<>>, TargetChannel, 2, NoLink, FALSE).db

MemberInit ==
  /\ backend = "supabase"
  /\ \/ /\ db \in {EmptyStore, EarlierRun, OutsideRun}
        /\ member = [u \in Users |-> [c \in Chats |-> FALSE]]
     \/ /\ db = CreditedRun
        /\ member = [u \in Users |-> [c \in Chats |-> u = 2 /\ c = TargetChannel]]
  /\ invite_links = <<>>
  /\ attributed = [u \in Users |-> [c \in Chats |-> {}]]
  /\ last = NoEvent
  /\ steps = 0
  /\ inflight = NoCalls
  /\ webhook_server = NoWebhook

\* the outcome of the handler an update was passed to, with the update noted
tracked_update(out, il, upd) ==
  [db |-> out.db, il |-> il, ev |-> [out.ev EXCEPT !.update = upd]]

tracked_join(out, upd) == tracked_update(out, out.il, upd)

\* what track_chat_member does with an update of chat c about user u
track_chat_member(s, il, c, u, is_bot, old_status, new_status, link, apiOk) ==
  LET upd == [is_bot |-> is_bot, old_status |-> old_status, new_status |-> new_status,
              chat_type |-> ChatType(c), warned |-> security_warning(ChatType(c), c)]
      kind == classify(is_bot, old_status, new_status)
  IN IF kind = "join"
       THEN tracked_join(handle_user_join(s, il, c, u, link, apiOk), upd)
     ELSE IF kind = "leave"
       THEN tracked_update(handle_user_leave(s, c, u), il, upd)
     ELSE [db |-> s, il |-> il,
           ev |-> [NoEvent EXCEPT !.op = "skip", !.user = u, !.chan = c, !.update = upd]]

\* the store, the mapping file and the event after the update
TrackedOutcome(out) ==
  /\ db' = out.db
  /\ invite_links' = out.il
  /\ last' = out.ev

\* is_member as Telegram sees the subject after the update
InChat(status, was) ==
  IF status \in {"member", "administrator", "creator"} THEN TRUE
  ELSE IF status \in {"left", "kicked"} THEN FALSE
  ELSE was

\* an update about a user: a join carries a link and meets an outcome of the
\* link creation, other updates do not
TrackChatMember(c, u, old_status, new_status, link, apiOk) ==
  /\ Step(MaxMemberSteps)
  /\ classify(FALSE, old_status, new_status) = "join" \/ (link = NoLink /\ ~apiOk)
  /\ TrackedOutcome(track_chat_member(db, invite_links, c, u, FALSE, old_status, new_status,
                                      link, apiOk))
  /\ member' = [member EXCEPT ![u][c] = InChat(new_status, @)]
  /\ UNCHANGED attributed

\* an update about another bot
TrackBotMember(c, old_status, new_status) ==
  /\ Step(MaxMemberSteps)
  /\ TrackedOutcome(track_chat_member(db, invite_links, c, BotAccount, TRUE, old_status,
                                      new_status, NoLink, FALSE))
  /\ UNCHANGED <<member, attributed>>

\* /start with a code that names the chat that is not allow-listed
MemberStart(u, p, isMember) ==
  /\ steps < MaxMemberSteps
  /\ StartReferral(u, p, isMember)

MemberNext ==
  \/ \E c \in Chats, u \in Users, old_status \in Statuses, new_status \in Statuses :
       \E link \in {NoLink, ForeignLink}, apiOk \in BOOLEAN :
         TrackChatMember(c, u, old_status, new_status, link, apiOk)
  \/ \E c \in Chats, old_status \in Statuses, new_status \in Statuses :
       TrackBotMember(c, old_status, new_status)
  \/ \E u \in Users, p \in OutsideChatPayloads :
       \E isMember \in SeenAsMember(u, OutsideChat) : MemberStart(u, p, isMember)

MemberSpec == MemberInit /\ [][MemberNext]_vars

\* ----------------------------------------------------- the 'status' button
MaxStatusSteps == 3

\* the keys of the dict get_user_progress returns for a stored channel record
ProgressKeys ==
  {"successful_referrals", "rewards_claimed", "progress_percentage", "referrals_needed",
   "available_rewards", "referral_history"}

\* ReferralManager.get_user_progress: {} when the user or the channel record is
\* missing
get_user_progress(be, s, u, c) ==
  LET user_data == get_user_data(be, s, u)
  IN IF ~user_data.found THEN [keys |-> {}, successful_referrals |-> 0, rewards_claimed |-> 0]
     ELSE IF ~user_data.channels[c].present
       THEN [keys |-> {}, successful_referrals |-> 0, rewards_claimed |-> 0]
     ELSE [keys |-> ProgressKeys,
           successful_referrals |-> user_data.channels[c].successful_referrals,
           rewards_claimed |-> user_data.channels[c].rewards_claimed]

\* the keys _send_status_to_callback reads from the progress of a channel, by
\* subscription
StatusReads == {"successful_referrals", "rewards_claimed", "can_claim_reward"}

\* _send_status_to_callback: the reply it ends with, or the KeyError of a
\* subscription with a key the progress does not have
send_status_to_callback(s, u) ==
  LET all_channels == s.channels
  IN IF all_channels = {} THEN [reply |-> "no_channels", raised |-> FALSE]
     ELSE IF \E c \in all_channels :
               ~(StatusReads \subseteq get_user_progress("supabase", s, u, c).keys)
       THEN [reply |-> "checking", raised |-> TRUE]
     ELSE [reply |-> "status", raised |-> FALSE]

\* handle_callback with data "status"
StatusCallback(u) ==
  /\ Step(MaxStatusSteps)
  /\ LET out == send_status_to_callback(db, u)
     IN last' = [NoEvent EXCEPT !.op = "status", !.user = u, !.called = TRUE,
                                !.raised = out.raised, !.reply = out.reply]
  /\ UNCHANGED <<db, invite_links, member, attributed>>

\* admin_command by an administrator of chat c: the chat is registered
AdminCommand(c) ==
  /\ Step(MaxStatusSteps)
  /\ db' = register_channel(db, c)
  /\ last' = [NoEvent EXCEPT !.op = "admin", !.chan = c, !.called = TRUE, !.wrote = TRUE]
  /\ UNCHANGED <<invite_links, member, attributed>>

StatusJoin(c, u, link, apiOk) ==
  /\ steps < MaxStatusSteps
  /\ UserJoin(c, u, link, apiOk)

StatusNext ==
  \/ \E u \in Users : StatusCallback(u)
  \/ \E c \in Channels : AdminCommand(c)
  \/ \E c \in Channels, u \in Users :
       \E link \in ObservableLinks(c), apiOk \in IssueOutcomes(u) : StatusJoin(c, u, link, apiOk)

StatusSpec == Init /\ [][StatusNext]_vars

\* ------------------------------------- the engine and links on the flat files
\* the part of _create_trackable_invite_link that persists the link: the
\* record of the channel is made with zero counters and empty lists when it
\* is missing, and the link is stored in it
persist_referral_link(be, s, u, c, link) ==
  LET got == get_user_data(be, s, u)
      user_data == IF got.found THEN got ELSE EmptyUserData
      cd0 == IF user_data.channels[c].present THEN user_data.channels[c] ELSE NewChannelData
      data == [user_data EXCEPT !.channels[c] = [cd0 EXCEPT !.referral_link = link]]
  IN save_user_data(be, s, u, data)

ListInit ==
  /\ backend = "file"
  /\ db = EmptyStore
  /\ invite_links = <<>>
  /\ member = [u \in Users |-> [c \in Chats |-> FALSE]]
  /\ attributed = [u \in Users |-> [c \in Chats |-> {}]]
  /\ last = NoEvent
  /\ steps = 0
  /\ inflight = NoCalls
  /\ webhook_server = NoWebhook

\* _create_trackable_invite_link on the adapter in use
IssueLink(u, c, apiOk) ==
  /\ Step(MaxCalls)
  /\ last' = [NoEvent EXCEPT !.op = "issue_link", !.user = u, !.chan = c,
                             !.called = TRUE, !.wrote = apiOk,
                             !.link = IF apiOk THEN Len(invite_links) + 1 ELSE BotLink]
  /\ IF apiOk
       THEN /\ invite_links' = store_invite_link_mapping(invite_links, u, c)
            /\ db' = persist_referral_link(backend, db, u, c, Len(invite_links) + 1)
       ELSE UNCHANGED <<db, invite_links>>
  /\ UNCHANGED <<member, attributed>>

ListNext ==
  \/ \E r \in Users, c \in Channels, u \in Users : EngineCredit(r, c, u)
  \/ \E r \in Users, c \in Channels, u \in Users : EngineLeave(r, c, u)
  \/ \E u \in Users, c \in Channels : EngineClaim(u, c)
  \/ \E u \in Users, c \in Channels, apiOk \in CreateOutcomes : IssueLink(u, c, apiOk)

ListSpec == ListInit /\ [][ListNext]_vars

\* ------------------------------ handlers of one process, switching at awaits
\* The handlers are coroutines on one event loop: a handler runs until it
\* awaits a send or a Telegram API call, and another handler can run only
\* then.  The calls of the adapter are synchronous.  inflight holds the
\* handlers that are suspended; steps counts the handlers started.
MaxCoopSteps == 3

\* user 2 joined the target channel through user 1's code, left, and started
\* the bot with that code again
RejoinRun ==
  LET ts == CHOOSE t \in Timestamps : TRUE
  IN handle_referral_join(CreditedRun, 2, generate_referral_code(1, TargetChannel, ts), FALSE)

CoopInit ==
  /\ backend = "supabase"
  /\ db \in {EmptyStore, EarlierRun, RejoinRun}
  /\ invite_links = <<>>
  /\ member = [u \in Users |-> [c \in Chats |-> FALSE]]
  /\ attributed = [u \in Users |-> [c \in Chats |-> {}]]
  /\ last = NoEvent
  /\ steps = 0
  /\ inflight = NoCalls
  /\ webhook_server = NoWebhook

\* _handle_user_join from its start to its first await: the pending lookup,
\* the removal and process_successful_referral follow each other with no
\* await between them.  What the handler has written by then is what the
\* whole handler writes when no link is created.
join_until_await(s, il, c, u, link) == handle_user_join(s, il, c, u, link, FALSE)

\* task i starts the join handler and runs it to its first await: the send of
\* the notification when a referrer was credited, else the creation of the
\* link or the send of the welcome; an exception ends the handler
CoopJoin(i, c, u, link) ==
  /\ steps < MaxCoopSteps
  /\ steps' = steps + 1
  /\ inflight[i].pc = "idle"
  /\ ~member[u][c]
  /\ LET out == join_until_await(db, invite_links, c, u, link)
     IN /\ db' = out.db
        /\ last' = out.ev
        /\ inflight' = [inflight EXCEPT ![i] =
                          [Idle EXCEPT !.pc = IF out.ev.raised THEN "idle"
                                              ELSE IF out.ev.called THEN "notify"
                                              ELSE "welcome",
                                       !.referrer = out.ev.referrer,
                                       !.chan = c, !.user = u, !.seen = out.ev.ret]]
        /\ attributed' = IF out.ev.referrer \in Users
                           THEN [attributed EXCEPT ![out.ev.referrer][c] = @ \cup {u}]
                           ELSE attributed
  /\ member' = [member EXCEPT ![u][c] = TRUE]
  /\ UNCHANGED <<backend, invite_links, webhook_server>>

\* task i resumes after the notification: it looks up the stored link and,
\* when there is none, awaits create_chat_invite_link
CoopLookup(i) ==
  /\ inflight[i].pc \in {"notify", "welcome"}
  /\ inflight' = [inflight EXCEPT ![i].pc =
                    IF stored_target_link(db, inflight[i].user) = NoLink
                      THEN "create" ELSE "idle"]
  /\ last' = [NoEvent EXCEPT !.op = "lookup", !.user = inflight[i].user]
  /\ UNCHANGED <<backend, db, invite_links, member, attributed, steps, webhook_server>>

\* task i resumes after create_chat_invite_link: the link is stored, and the
\* handler goes on to the welcome and ends
CoopCreated(i, apiOk) ==
  /\ inflight[i].pc = "create"
  /\ LET made == create_trackable_invite_link(db, invite_links, inflight[i].user,
                                              TargetChannel, apiOk)
     IN db' = made.db /\ invite_links' = made.il
  /\ inflight' = [inflight EXCEPT ![i] = Idle]
  /\ last' = [NoEvent EXCEPT !.op = "created", !.user = inflight[i].user]
  /\ UNCHANGED <<backend, member, attributed, steps, webhook_server>>

\* the leave handler and the start command write before their last await
CoopLeave(c, u) ==
  /\ steps < MaxCoopSteps
  /\ UserLeave(c, u)

CoopStart(u, p, isMember) ==
  /\ steps < MaxCoopSteps
  /\ StartReferral(u, p, isMember)

CoopNext ==
  \/ \E i \in Instances, c \in Channels, u \in Users :
       \E link \in ObservableLinks(c) : CoopJoin(i, c, u, link)
  \/ \E i \in Instances : CoopLookup(i)
  \/ \E i \in Instances, apiOk \in CreateOutcomes : CoopCreated(i, apiOk)
  \/ \E c \in Channels, u \in Users : CoopLeave(c, u)
  \/ \E u \in Users, p \in CodePayloads :
       \E isMember \in SeenAsMember(u, DecodedPayloads[p].channel_id) :
         CoopStart(u, p, isMember)

CoopSpec == CoopInit /\ [][CoopNext]_vars

\* --------------------------- a claim among the store accesses of other calls
\* Instances share the store.  claim_reward, process_successful_referral,
\* process_referral_leave and the persisting part of
\* _create_trackable_invite_link each read a user's record with get_user_data,
\* change their copy and write the whole record with save_user_data; the two
\* accesses of a call are two steps, and the accesses of other instances can
\* fall between them.  inflight[i].referrer is the user whose record the call
\* of instance i works on.

\* claim_reward between its two accesses; total is 'total_claimed'
claim_in_memory(got, c) ==
  LET refused == [ok |-> FALSE, total |-> 0, data |-> got]
  IN IF ~got.found THEN refused
     ELSE IF ~got.channels[c].present THEN refused
     ELSE LET cd0 == got.channels[c]
              available_rewards ==
                (cd0.successful_referrals \div REFERRAL_TARGET) - cd0.rewards_claimed
          IN IF available_rewards <= 0 THEN refused
             ELSE LET cd1 == [cd0 EXCEPT !.rewards_claimed = @ + 1]
                  IN [ok |-> TRUE, total |-> cd1.rewards_claimed,
                      data |-> [got EXCEPT !.channels[c] = cd1]]

\* process_referral_leave between its two accesses; saves: it goes on to save
leave_in_memory(got, c, u) ==
  LET quiet == [saves |-> FALSE, raised |-> FALSE, data |-> got]
  IN IF ~got.found THEN quiet
     ELSE IF ~got.channels[c].present THEN quiet
     ELSE LET cd0 == got.channels[c]
          IN IF u \notin SeqToSet(cd0.referred_users) THEN quiet
             ELSE IF ~cd0.has_history THEN [quiet EXCEPT !.raised = TRUE]
             ELSE [saves |-> TRUE, raised |-> FALSE,
                   data |-> [got EXCEPT !.channels[c] =
                               [cd0 EXCEPT
                                  !.successful_referrals = IF @ > 0 THEN @ - 1 ELSE @,
                                  !.referred_users = RemoveFirst(@, u),
                                  !.referral_history =
                                    Append(@, [user_id |-> u, action |-> "left"])]]]

\* the persisting part of _create_trackable_invite_link between its two accesses
link_in_memory(got, c, link) ==
  LET user_data == IF got.found THEN got ELSE EmptyUserData
      cd0 == IF user_data.channels[c].present THEN user_data.channels[c] ELSE NewChannelData
  IN [user_data EXCEPT !.channels[c] = [cd0 EXCEPT !.referral_link = link]]

DurableInit ==
  /\ backend \in {"file", "supabase"}
  /\ db \in RewardStores(backend)
  /\ invite_links = <<>>
  /\ member = [u \in Users |-> [c \in Chats |-> FALSE]]
  /\ attributed = [u \in Users |-> [c \in Chats |-> {}]]
  /\ last = NoEvent
  /\ steps = 0
  /\ inflight = NoCalls
  /\ webhook_server = NoWebhook

\* instance i enters claim_reward(u, c) and reads u's record; a refused claim
\* returns at once
ClaimRead(i, u, c) ==
  /\ inflight[i].pc = "idle"
  /\ LET mem == claim_in_memory(get_user_data(backend, db, u), c)
     IN inflight' = [inflight EXCEPT ![i] =
                       [pc |-> IF mem.ok THEN "claim_read" ELSE "done",
                        referrer |-> u, chan |-> c, user |-> NoUser,
                        seen |-> mem.total, data |-> mem.data,
                        file |-> "none", holds |-> FALSE]]
  /\ UNCHANGED <<backend, db, invite_links, member, attributed, last, steps, webhook_server>>

\* instance i saves its copy and returns success with the total of its copy
ClaimWrite(i) ==
  /\ inflight[i].pc = "claim_read"
  /\ db' = save_user_data(backend, db, inflight[i].referrer, inflight[i].data)
  /\ inflight' = [inflight EXCEPT ![i].pc = "done"]
  /\ last' = [NoEvent EXCEPT !.op = "claim", !.user = inflight[i].referrer,
                             !.chan = inflight[i].chan, !.called = TRUE,
                             !.wrote = TRUE, !.ret = inflight[i].seen]
  /\ UNCHANGED <<backend, invite_links, member, attributed, steps, webhook_server>>

\* instance i enters process_referral_leave(r, c, u) and reads r's record
LeaveRead(i, r, c, u) ==
  /\ inflight[i].pc = "idle"
  /\ LET mem == leave_in_memory(get_user_data(backend, db, r), c, u)
     IN inflight' = [inflight EXCEPT ![i] =
                       [pc |-> IF mem.raised THEN "raised"
                               ELSE IF mem.saves THEN "leave_read" ELSE "done",
                        referrer |-> r, chan |-> c, user |-> u,
                        seen |-> 0, data |-> mem.data,
                        file |-> "none", holds |-> FALSE]]
  /\ UNCHANGED <<backend, db, invite_links, member, attributed, last, steps, webhook_server>>

LeaveWrite(i) ==
  /\ inflight[i].pc = "leave_read"
  /\ db' = save_user_data(backend, db, inflight[i].referrer, inflight[i].data)
  /\ inflight' = [inflight EXCEPT ![i].pc = "done"]
  /\ UNCHANGED <<backend, invite_links, member, attributed, last, steps, webhook_server>>

\* instance i is in _create_trackable_invite_link(u, c): Telegram made the
\* link, the mapping is stored, and u's record is read
LinkRead(i, u, c) ==
  /\ inflight[i].pc = "idle"
  /\ Len(invite_links) < MaxLinks
  /\ invite_links' = store_invite_link_mapping(invite_links, u, c)
  /\ inflight' = [inflight EXCEPT ![i] =
                    [pc |-> "link_read", referrer |-> u, chan |-> c, user |-> NoUser,
                     seen |-> 0,
                     data |-> link_in_memory(get_user_data(backend, db, u), c,
                                             Len(invite_links) + 1),
                     file |-> "none", holds |-> FALSE]]
  /\ UNCHANGED <<backend, db, member, attributed, last, steps, webhook_server>>

LinkWrite(i) ==
  /\ inflight[i].pc = "link_read"
  /\ db' = save_user_data(backend, db, inflight[i].referrer, inflight[i].data)
  /\ inflight' = [inflight EXCEPT ![i].pc = "done"]
  /\ UNCHANGED <<backend, invite_links, member, attributed, last, steps, webhook_server>>

DurableNext ==
  \/ \E i \in Instances, u \in Users, c \in Channels : ClaimRead(i, u, c)
  \/ \E i \in Instances : ClaimWrite(i)
  \/ \E i \in Instances, r \in Users, c \in Channels, u \in Users : CreditRead(i, r, c, u)
  \/ \E i \in Instances : CreditWrite(i)
  \/ \E i \in Instances, r \in Users, c \in Channels, u \in Users : LeaveRead(i, r, c, u)
  \/ \E i \in Instances : LeaveWrite(i)
  \/ \E i \in Instances, u \in Users, c \in Channels : LinkRead(i, u, c)
  \/ \E i \in Instances : LinkWrite(i)

DurableSpec == DurableInit /\ [][DurableNext]_vars

\* ------------------------------------------------------------ observations
successful_referrals(s, u, c) == s.chan[u][c].successful_referrals

rewards_claimed(s, u, c) == s.chan[u][c].rewards_claimed

referred_users(s, u, c) == s.chan[u][c].referred_users

\* the counters and referred-user lists of every (user, channel)
Counters(s) ==
  [u \in Users |-> [c \in Chats |->
     <<successful_referrals(s, u, c), rewards_claimed(s, u, c), referred_users(s, u, c)>>]]

\* the step just taken handled a join event
JoinStep == last'.op = "join" /\ steps' = steps + 1

\* C1: attribution precedence.  On a join of u in c for which a pending referral
\* (u,c)->A exists and the observed invite link is mapped to a referrer B # A,
\* A's successful_referrals for c grows by 1 and B's counters do not change.
C1_PendingReferrerCredited ==
  [][\A A \in Users, B \in Users :
       (/\ JoinStep
        /\ get_pending_referral(db, last'.user, last'.chan) = A
        /\ get_referrer_from_link(invite_links, last'.link) = B
        /\ B # A)
       => /\ successful_referrals(db', A, last'.chan)
               = successful_referrals(db, A, last'.chan) + 1
          /\ Counters(db')[B] = Counters(db)[B]]_vars

\* C2: a pending referral is single-use.  After the join handler ran for (u,c)
\* no pending referral for (u,c) is left, and a join of u in c that finds no
\* pending referral and carries no mapped invite link changes no counter.
C2_PendingSingleUse ==
  [][JoinStep =>
       /\ get_pending_referral(db', last'.user, last'.chan) = NoUser
       /\ (/\ get_pending_referral(db, last'.user, last'.chan) = NoUser
           /\ get_referrer_from_link(invite_links, last'.link) = NoUser)
          => Counters(db') = Counters(db)]_vars

\* C2 witness: user 2 joined again with nothing pending, after the join that
\* consumed the pending referral (2,c)->1 had credited user 1, and no one was credited.
C2_Witness ==
  /\ last.op = "join" /\ last.user = 2 /\ last.referrer = NoUser
  /\ successful_referrals(db, 1, last.chan) = 1
  /\ get_pending_referral(db, 2, last.chan) = NoUser
  /\ steps = 3

\* C3: invite-link attribution.  On a join of u in c with no pending referral
\* and an observed invite link that is a key of the mapping, the referrer handed
\* to process_successful_referral is the user stored for the link, and that
\* user's successful_referrals for c grows by 1.
C3_LinkCreatorCredited ==
  [][\A B \in Users :
       (/\ JoinStep
        /\ get_pending_referral(db, last'.user, last'.chan) = NoUser
        /\ get_referrer_from_link(invite_links, last'.link) = B)
       => /\ last'.called /\ last'.referrer = B
          /\ successful_referrals(db', B, last'.chan)
               = successful_referrals(db, B, last'.chan) + 1]_vars

\* C4: organic join.  On a join of u in c with no pending referral and no
\* observed invite link, or one that is not in the mapping,
\* process_successful_referral is not called and no counter or list changes.
C4_OrganicJoin ==
  [][(/\ JoinStep
      /\ get_pending_referral(db, last'.user, last'.chan) = NoUser
      /\ get_referrer_from_link(invite_links, last'.link) = NoUser)
     => /\ ~last'.called
        /\ Counters(db') = Counters(db)]_vars

\* C5: self-referral guard.  A /start whose code decodes to the sender's own id
\* creates no pending referral and changes nothing else in the store.
C5_SelfReferralRejected ==
  [][(last'.op = "start" /\ steps' = steps + 1 /\ last'.referrer = last'.user)
     => db' = db /\ invite_links' = invite_links]_vars

\* C5 witness: a user has started the bot with a code of their own
C5_Witness == last.op = "start" /\ last.referrer = last.user

C8_JoinThenLeave ==
  [][\A A \in Users :
       /\ (/\ JoinStep
           /\ get_pending_referral(db, last'.user, last'.chan) = A
           /\ ~db.chan[A][last'.chan].present)
          => /\ last'.ret = 1
             /\ successful_referrals(db', A, last'.chan) = 1
       /\ (/\ last'.op = "leave" /\ steps' = steps + 1
           /\ last'.user \in attributed[A][last'.chan]
           /\ successful_referrals(db, A, last'.chan) = 1)
          => /\ last'.referrer = A
             /\ successful_referrals(db', A, last'.chan) = 0
             /\ last'.user \notin SeqToSet(referred_users(db', A, last'.chan))]_vars

\* C9: exactly-once crediting with reversal.  For every referrer r and channel c,
\* successful_referrals of (r,c) is the number of users attributed to r that are
\* members of c now.
C9_CountMatchesAttributed ==
  \A r \in Users, c \in Channels :
    successful_referrals(db, r, c) = Cardinality(attributed[r][c])

\* ------------------------------------------------ claims about the engine
\* C7: process_successful_referral(r, c, u) adds 1 to successful_referrals of
\* (r,c), appends one 'joined' event for u to its history, returns the stored
\* total, creates the record if there was none, and changes neither
\* rewards_claimed of (r,c) nor any other (user, channel) record.
C7_CreditAddsOne ==
  [][(last'.op = "credit" /\ steps' = steps + 1)
     => LET r == last'.referrer
            c == last'.chan
            u == last'.user
        IN /\ db'.chan[r][c].present
           /\ successful_referrals(db', r, c) = successful_referrals(db, r, c) + 1
           /\ db'.chan[r][c].referral_history
                = Append(db.chan[r][c].referral_history, [user_id |-> u, action |-> "joined"])
           /\ last'.ret = successful_referrals(db', r, c)
           /\ rewards_claimed(db', r, c) = rewards_claimed(db, r, c)
           /\ \A r2 \in Users, c2 \in Channels :
                <<r2, c2>> # <<r, c>> => db'.chan[r2][c2] = db.chan[r2][c2]]_vars

\* C10: process_referral_leave(r, c, u) with u not in the referred_users list of
\* (r,c), or with no such record, changes nothing and saves nothing.
C10_LeaveOfStrangerIsNoOp ==
  [][(/\ last'.op = "unrefer" /\ steps' = steps + 1
      /\ last'.user \notin SeqToSet(referred_users(db, last'.referrer, last'.chan)))
     => db' = db /\ ~last'.wrote /\ ~last'.raised]_vars

\* C10 witness: the leave of a user the referrer never referred was processed
\* while the referrer's list held somebody else
C10_Witness ==
  /\ last.op = "unrefer" /\ ~last.wrote
  /\ referred_users(db, last.referrer, last.chan) # <<>>
  /\ last.user \notin SeqToSet(referred_users(db, last.referrer, last.chan))

\* C11: counter floor.  In every state reached by credits, leaves (repeated
\* leaves of the same user included) and claims, successful_referrals of every
\* (user, channel) record is at least 0.
C11_CounterFloor ==
  \A u \in Users, c \in Channels : successful_referrals(db, u, c) >= 0

\* C11 witness: the leave of a user was processed a second time, after the leave
\* that took the referrer's count back to 0
C11_Witness ==
  /\ last.op = "unrefer" /\ ~last.wrote /\ steps = 3
  /\ db.chan[last.referrer][last.chan].present
  /\ successful_referrals(db, last.referrer, last.chan) = 0
  /\ Len(db.chan[last.referrer][last.chan].referral_history) = 2

\* floor(n / d) for n >= 0, d > 0, stated without the division operator
FloorDiv(n, d) == CHOOSE q \in 0..n : q * d <= n /\ n < (q + 1) * d

\* rewards a stored record makes available: floor(successful_referrals / TARGET)
\* minus rewards_claimed
Eligible(s, u, c) ==
  FloorDiv(successful_referrals(s, u, c), REFERRAL_TARGET) - rewards_claimed(s, u, c)

\* C12: claim_reward(u, c) succeeds iff the stored (u,c) record exists and
\* floor(successful_referrals / TARGET) - rewards_claimed > 0; on success
\* rewards_claimed grows by exactly 1, successful_referrals is unchanged and the
\* new rewards_claimed is returned; on failure nothing is changed.
C12_ClaimReward ==
  [][(last'.op = "claim" /\ steps' = steps + 1)
     => LET u == last'.user
            c == last'.chan
        IN /\ last'.wrote <=> (db.chan[u][c].present /\ Eligible(db, u, c) > 0)
           /\ last'.wrote =>
                /\ rewards_claimed(db', u, c) = rewards_claimed(db, u, c) + 1
                /\ successful_referrals(db', u, c) = successful_referrals(db, u, c)
                /\ last'.ret = rewards_claimed(db', u, c)
           /\ ~last'.wrote => db' = db]_vars

\* C12 witness: a claim succeeded while two rewards were available, and
\* redeemed one of them
C12_Witness ==
  /\ last.op = "claim" /\ last.wrote /\ last.ret = 1
  /\ successful_referrals(db, last.user, last.chan) = 2 * REFERRAL_TARGET
  /\ rewards_claimed(db, last.user, last.chan) = 1

\* C13: repeated claims.  From any state, with successful_referrals = s and
\* rewards_claimed = k stored for (u,c) and nothing but claims in between,
\* exactly max(0, floor(s / TARGET) - k) consecutive claim_reward(u, c) calls
\* succeed, every later call fails, and rewards_claimed ends that many higher.
C13_RepeatedClaims ==
  \A u \in Users, c \in Channels :
    LET a == IF db.chan[u][c].present /\ Eligible(db, u, c) > 0
               THEN Eligible(db, u, c) ELSE 0
        run == claim_repeatedly(backend, db, u, c, MaxClaims)
    IN /\ \A i \in 1..MaxClaims : run.outcomes[i] = (i <= a)
       /\ rewards_claimed(run.db, u, c)
            = rewards_claimed(db, u, c) + (IF a < MaxClaims THEN a ELSE MaxClaims)

\* C13 witness: the record with 25 referrals and 1 reward claimed has just had
\* its one available reward claimed, leaving rewards_claimed = 2
C13_Witness ==
  /\ last.op = "claim" /\ last.wrote /\ last.ret = 2
  /\ successful_referrals(db, last.user, last.chan) = 2 * REFERRAL_TARGET + 5
  /\ rewards_claimed(db, last.user, last.chan) = 2

C15_RoundTrip ==
  (last.op = "decode" /\ last.how = "intact")
    => /\ last.result.ok
       /\ last.result.kind = "dict"
       /\ last.result.referrer_id = last.user
       /\ last.result.channel_id = last.chan

C15_Witness ==
  /\ last.op = "decode" /\ last.how = "intact"
  /\ last.user = 12 /\ last.chan = GroupChannel
  /\ last.result.ok /\ last.result.referrer_id = 12

\* the decoded value is a record that has the three required fields
HasRequiredFields(result) ==
  /\ result.kind = "dict"
  /\ \A f \in 1..Len(RequiredFields) :
       \E j \in 1..Len(result.data.keys) : result.data.keys[j] = RequiredFields[f]

\* C16: decoding fails closed.  For every input, decode_referral_code returns
\* the invalid value or a record that contains referrer_id, channel_id and
\* timestamp.
C16_FailsClosed ==
  last.op = "decode" => (~last.result.ok \/ HasRequiredFields(last.result))

\* the embedded hash is the digest of the embedded referrer_id, channel_id and
\* timestamp
HashMatches(result) ==
  /\ result.kind = "dict"
  /\ Contains(result.data, Key_hash)
  /\ Lookup(result.data, Key_hash)
       = [kind |-> "str",
          text |-> md5_hexdigest8(Lookup(result.data, Key_referrer_id).text \o <<95>>
                                    \o Lookup(result.data, Key_channel_id).text \o <<95>>
                                    \o Lookup(result.data, Key_timestamp).text)]

\* C17: corruption detection.  Decoding a code obtained from a generated code
\* by truncation, re-ordering or character substitution never returns a record
\* whose fields do not match its embedded hash: such a code decodes to invalid.
C17_CorruptionDetected ==
  (last.op = "decode" /\ last.how \in {"truncated", "reordered", "substituted"})
    => (~last.result.ok \/ HashMatches(last.result))

\* C18: decode failure mutates nothing.  When a user starts the bot with a
\* payload that does not decode to a referral record, the handler replies with
\* the invalid-link message, and no pending referral, user record or counter
\* is created or changed.
C18_DecodeFailureMutatesNothing ==
  [][(last'.op = "start" /\ steps' = steps + 1 /\ last'.decoded # "dict")
     => /\ last'.reply = "invalid_link"
        /\ ~last'.raised
        /\ db' = db
        /\ invite_links' = invite_links]_vars

\* ------------------------------------------- claims about concurrent calls
\* the instances whose call credits (r, c) and has returned
Completed(r, c) ==
  {i \in Instances : /\ inflight[i].pc = "done"
                     /\ inflight[i].referrer = r
                     /\ inflight[i].chan = c}

\* no call in flight or returned writes r's record for another channel
OnlyChannel(r, c) ==
  \A i \in Instances :
    (inflight[i].pc # "idle" /\ inflight[i].referrer = r) => inflight[i].chan = c

\* the count of (r, c) before the first of the completed calls
CountBefore(r, c) ==
  LET seen == {inflight[i].seen : i \in Completed(r, c)}
  IN CHOOSE n \in seen : \A m \in seen : n <= m

\* two of the completed calls read the same count: each ran between the
\* other's read and write
Overlapped(r, c) ==
  \E i, j \in Completed(r, c) : i # j /\ inflight[i].seen = inflight[j].seen

\* C19: lost-update race.  When calls crediting the same (referrer, channel)
\* interleave at their reads and writes of the store, successful_referrals
\* grows by at least 1 and at most the number of completed calls, and it grows
\* by less than that number exactly when two of the calls overlapped; the state
\* in which two calls completed and the count grew by only 1 is reachable.
C19_LostUpdate ==
  \A r \in Users, c \in Channels :
    (Completed(r, c) # {} /\ OnlyChannel(r, c))
      => LET grown == successful_referrals(db, r, c) - CountBefore(r, c)
             n == Cardinality(Completed(r, c))
         IN /\ grown >= 1
            /\ grown <= n
            /\ (grown < n <=> Overlapped(r, c))

C19_Witness ==
  \E r \in Users, c \in Channels :
    /\ Cardinality(Completed(r, c)) = 2
    /\ OnlyChannel(r, c)
    /\ successful_referrals(db, r, c) = CountBefore(r, c) + 1

\* ------------------------------------------------ claims about the adapters
\* C20: backend interchangeability.  After any sequence of engine calls
\* (credit, leave handling, claim) none of which ended in an exception, the
\* successful_referrals and rewards_claimed seen through get_user_data are the
\* same on the flat-file adapter and on the relational adapter.
C20_Interchangeable ==
  (backend = "both" /\ ~last.raised)
    => ObservedCounters("file", db.file) = ObservedCounters("supabase", db.supabase)

\* C21: persistence failure is a no-op.  When a backend call made while
\* crediting a referral on the relational adapter fails (a read of the
\* referrer's record or a write of it), the call does not raise and the stored
\* successful_referrals and rewards_claimed of the referrer are what they were.
C21_FailureIsNoOp ==
  [][(last'.op = "credit" /\ steps' = steps + 1 /\ last'.fault # "none")
       => /\ ~last'.raised
          /\ ObservedCounters("supabase", db')[last'.referrer]
               = ObservedCounters("supabase", db)[last'.referrer]]_vars

\* the welcome sends among the sends of a join: those to the joining user and
\* to the channel
WelcomeSends(sends) ==
  LET IsWelcome(m) == m.to \in {"user", "channel"}
  IN SelectSeq(sends, IsWelcome)

\* C22: welcome delivery fallback.  In the join handler the direct message to
\* the joining user is attempted first; the fallback is posted in the channel
\* if and only if the direct message failed; neither is sent twice, a failed
\* fallback ends the handler quietly, and the credit written for the join
\* stays as written.
C22_WelcomeFallback ==
  [][(last'.op = "join" /\ steps' = steps + 1)
       => LET w == WelcomeSends(last'.sends)
          IN /\ ~last'.raised => (Len(w) >= 1 /\ w[1].to = "user")
             /\ Len(w) <= 2
             /\ Len(w) = 2 => w[2].to = "channel"
             /\ Len(w) = 2 <=> (Len(w) >= 1 /\ ~w[1].ok)
             /\ (last'.wrote /\ last'.referrer \in Users)
                  => successful_referrals(db', last'.referrer, last'.chan) = last'.ret]_vars

\* a join was credited to its referrer, the direct message failed and so did
\* the fallback
C22_Witness ==
  /\ last.op = "join" /\ last.wrote /\ last.referrer \in Users
  /\ successful_referrals(db, last.referrer, last.chan) = 1
  /\ WelcomeSends(last.sends)
       = <<[to |-> "user", ok |-> FALSE], [to |-> "channel", ok |-> FALSE]>>

\* request k was answered with success
Acknowledged(k) == k <= Len(webhook_server.log) /\ webhook_server.log[k].status = 200

\* how many times application.process_update ran for request k
TimesProcessed(k) ==
  Cardinality({i \in 1..Len(webhook_server.processed) : webhook_server.processed[i] = k})

Referrers(all_users, c) ==
  {i \in 1..Len(all_users) :
     /\ all_users[i].data.channels[c].present
     /\ all_users[i].data.channels[c].successful_referrals > 0}

\* the place of the user at position i on the full leaderboard: behind every
\* user with more referrals and every earlier user with as many
Place_on_board(all_users, c, i) ==
  LET n(j) == all_users[j].data.channels[c].successful_referrals
  IN 1 + Cardinality({j \in Referrers(all_users, c) :
                        n(j) > n(i) \/ (n(j) = n(i) /\ j < i)})

\* C24: get_leaderboard(c, limit) returns exactly the users with
\* successful_referrals > 0 for c, by successful_referrals descending, ties in
\* store order, cut to the first limit entries, and changes no state.
C24_Leaderboard ==
  [][last'.op = "leaderboard"
       => LET all_users == last'.all_users
              c == last'.chan
              R == Referrers(all_users, c)
          IN /\ Len(last'.board)
                  = (IF last'.limit < Cardinality(R) THEN last'.limit ELSE Cardinality(R))
             /\ \A i \in R :
                  Place_on_board(all_users, c, i) <= last'.limit
                    => LET e == last'.board[Place_on_board(all_users, c, i)]
                       IN /\ e.user_id = all_users[i].user_id
                          /\ e.referrals = all_users[i].data.channels[c].successful_referrals
             /\ db' = db
             /\ all_users = last.all_users]_vars

\* the counts 5, 0, 12, 3 with limit 2 gave 12 then 5
C24_Witness ==
  /\ last.op = "leaderboard" /\ last.limit = 2 /\ last.chan = TargetChannel
  /\ Len(last.all_users) = 4
  /\ [i \in 1..4 |-> last.all_users[i].data.channels[TargetChannel].successful_referrals]
       = <<5, 0, 12, 3>>
  /\ [i \in 1..Len(last.board) |-> last.board[i].referrals] = <<12, 5>>
  /\ [i \in 1..Len(last.board) |-> last.board[i].user_id] = <<3, 1>>

RECURSIVE SumOver(_, _)
\* the sum of value[i] over the positions i in S
SumOver(S, value) ==
  IF S = {} THEN 0
  ELSE LET i == CHOOSE j \in S : TRUE
       IN value[i] + SumOver(S \ {i}, value)

\* C25: by full scan, get_channel_stats(c) returns total_users = the number
\* of users with a record for c, active_referrers = the number of those with
\* successful_referrals > 0, total_referrals and rewards_claimed = the sums of
\* their counters, and changes no state.
C25_ChannelStats ==
  [][last'.op = "stats"
       => LET all_users == last'.all_users
              c == last'.chan
              With == {i \in 1..Len(all_users) : all_users[i].data.channels[c].present}
              referrals == [i \in With |-> all_users[i].data.channels[c].successful_referrals]
              claimed == [i \in With |-> all_users[i].data.channels[c].rewards_claimed]
          IN /\ last'.stats.total_users = Cardinality(With)
             /\ last'.stats.active_referrers = Cardinality(Referrers(all_users, c))
             /\ last'.stats.total_referrals = SumOver(With, referrals)
             /\ last'.stats.rewards_claimed = SumOver(With, claimed)
             /\ db' = db
             /\ all_users = last.all_users]_vars

\* three users have a record for the target channel, one of them without
\* referrals, and a fourth has a record for the group only
C25_Witness ==
  /\ last.op = "stats" /\ last.chan = TargetChannel
  /\ Len(last.all_users) = 4
  /\ last.all_users[4].data.channels[GroupChannel].present
  /\ last.stats.total_users = 3 /\ last.stats.active_referrers = 2
  /\ last.stats.total_referrals = 17 /\ last.stats.rewards_claimed = 1

\* C26: leave idempotence.  In every reachable state and for every (r, c, u),
\* process_referral_leave(r, c, u) called twice in a row leaves the same
\* successful_referrals and referred_users as called once.
C26_LeaveIdempotent ==
  \A r \in Users, c \in Channels, u \in Users :
    LET once == process_referral_leave(backend, db, r, c, u).db
        twice == process_referral_leave(backend, once, r, c, u).db
    IN /\ successful_referrals(twice, r, c) = successful_referrals(once, r, c)
       /\ referred_users(twice, r, c) = referred_users(once, r, c)

\* the four counts of a statistics result
FourCounts(stats) ==
  <<stats.total_users, stats.active_referrers, stats.total_referrals, stats.rewards_claimed>>

\* C27: aggregate equivalence.  For every content of the relational store,
\* get_channel_aggregate_stats(c) and the full scan over get_all_users return
\* the same total_users, active_referrers, total_referrals and rewards_claimed,
\* in results that have the same keys.
C27_AggregateEquivalence ==
  backend = "supabase"
    => \A c \in Channels :
         LET aggregate == get_channel_aggregate_stats(db, c)
             scan == scan_channel_stats(get_all_users("supabase", db), c)
         IN /\ FourCounts(aggregate) = FourCounts(scan)
            /\ DOMAIN aggregate = DOMAIN scan

\* C28: file-level mutual exclusion.  On the flat-file adapter every read or
\* write of a data file (users, channels, referral codes, pending referrals,
\* the invite-link mapping, the files backup copies) is made by a thread that
\* holds the lock, so no two threads have a data file open at the same time.
C28_FileMutualExclusion ==
  /\ \A i \in Instances : FileOpen(i) => inflight[i].holds
  /\ \A i \in Instances, j \in Instances : (FileOpen(i) /\ FileOpen(j)) => i = j

\* the step just taken was a /start whose code was accepted: the pending
\* referral was stored
StartStored == last'.op = "start" /\ steps' = steps + 1 /\ last'.reply = "invite"

\* C29: pending referrals are keyed by (joiner, channel), last writer wins.
\* A /start of u with an accepted code of B leaves B as the one pending
\* referrer of u for the code's channel, whoever was pending before, and
\* changes no other pending referral; the join of u in c with B pending
\* credits B, by 1, and nobody else.
C29_PendingLastWriterWins ==
  [][/\ StartStored
          => \E c \in Channels :
               /\ db'.pending[last'.user][c] = last'.referrer
               /\ \A u \in Users, d \in Channels :
                    (u # last'.user \/ d # c) => db'.pending[u][d] = db.pending[u][d]
     /\ (JoinStep /\ get_pending_referral(db, last'.user, last'.chan) # NoUser)
          => LET B == get_pending_referral(db, last'.user, last'.chan)
             IN /\ last'.referrer = B
                /\ B \in Users
                     => successful_referrals(db', B, last'.chan)
                          = successful_referrals(db, B, last'.chan) + 1
                /\ \A r \in Users, d \in Channels :
                     (r # B \/ d # last'.chan)
                       => successful_referrals(db', r, d) = successful_referrals(db, r, d)]_vars

\* the pending entry of user u for channel c
PendingEntry(s, u, c) == <<s.pending[u][c], s.pending_time[u][c]>>

\* C30: a sweep with limit max_age_hours removes exactly the pending entries
\* whose age is strictly greater than max_age_hours hours, and leaves every
\* other pending entry and all user, channel and referral-code data as they
\* were; and a pending entry disappears only in a sweep or in the join handling
\* of the joiner of that entry.
C30_ExpirySweep ==
  [][/\ last'.op = "sweep" /\ steps' = steps + 1 =>
          /\ \A u \in Users, c \in Channels :
               IF /\ db.pending[u][c] # NoUser
                  /\ last'.now - db.pending_time[u][c] > SecondsPerHour * last'.ret
               THEN db'.pending[u][c] = NoUser
               ELSE PendingEntry(db', u, c) = PendingEntry(db, u, c)
          /\ db'.users = db.users
          /\ db'.chan = db.chan
          /\ db'.channels = db.channels
          /\ db'.codes = db.codes
     /\ \A u \in Users, c \in Channels :
          db.pending[u][c] # NoUser /\ db'.pending[u][c] = NoUser =>
            \/ last'.op = "sweep"
            \/ last'.op = "join_removal" /\ last'.user = u /\ last'.chan = c
    ]_vars

\* a sweep has removed an entry and kept one whose age equals the limit, in a
\* store that holds a referral code
C30_Witness ==
  /\ last.op = "sweep"
  /\ last.wrote
  /\ db.codes # {}
  /\ \E u \in Users, c \in Channels :
       /\ db.pending[u][c] # NoUser
       /\ last.now - db.pending_time[u][c] = SecondsPerHour * last.ret

\* the counters, referred users and pending referrals of a store
ReferralState(s) ==
  <<[u \in Users |-> [c \in Chats |->
       <<s.chan[u][c].successful_referrals, s.chan[u][c].referred_users>>]],
    s.pending>>

\* C31: a chat-member update is handled as a join exactly when its subject is
\* no bot, its old status is left or kicked and its new status is member,
\* administrator or creator; as a leave exactly when its subject is no bot,
\* its old status is member, administrator or creator and its new status is
\* left or kicked; every other update changes no pending referral, counter or
\* list of referred users.
C31_Classification ==
  [][last'.op \in {"join", "leave", "skip"} /\ steps' = steps + 1 =>
       LET up == last'.update
       IN /\ last'.op = "join" <=>
               /\ ~up.is_bot
               /\ up.old_status \in {"left", "kicked"}
               /\ up.new_status \in {"member", "administrator", "creator"}
          /\ last'.op = "leave" <=>
               /\ ~up.is_bot
               /\ up.old_status \in {"member", "administrator", "creator"}
               /\ up.new_status \in {"left", "kicked"}
          /\ last'.op = "skip" => ReferralState(db') = ReferralState(db)
    ]_vars

\* a user with a pending referral for a chat was reported as going from left
\* to restricted there, and the pending referral is still stored
C31_Witness ==
  /\ last.op = "skip"
  /\ ~last.update.is_bot
  /\ last.update.old_status = "left"
  /\ last.update.new_status = "restricted"
  /\ db.pending[last.user][last.chan] # NoUser

\* C34: a chat-member update from a group, supergroup or channel that is not
\* in ALLOWED_CHAT_IDS changes no referral counter, pending referral or list
\* of referred users.
C34_AllowList ==
  [][last'.update.warned /\ steps' = steps + 1 => ReferralState(db') = ReferralState(db)]_vars

\* the sends of a handler that follow its notification of the referrer
AfterNotification(sends) ==
  IF sends # <<>> /\ sends[1].to = "referrer" THEN Tail(sends) ELSE sends

\* the notification of the referrer was attempted and failed
NotificationFailed(sends) == sends # <<>> /\ sends[1].to = "referrer" /\ ~sends[1].ok

C33_StatusNotFound ==
  last.op = "status" =>
    \A c \in db.channels :
      (~get_user_data("supabase", db, last.user).found
         \/ ~get_user_data("supabase", db, last.user).channels[c].present)
        => /\ get_user_progress("supabase", db, last.user, c).keys = {}
           /\ ~last.raised
           /\ last.reply = "status"

\* C35: once a referral link is stored in a user's record for a channel, no
\* later operation issues a different link for that user and channel: the
\* stored link stays the same, and the invite-link mapping holds at most one
\* entry per user and channel.
C35_OneLinkPerUser ==
  /\ [][\A u \in Users, c \in Channels :
          db.chan[u][c].referral_link # NoLink
            => db'.chan[u][c].referral_link = db.chan[u][c].referral_link]_vars
  /\ [](\A i \in 1..Len(invite_links), j \in 1..Len(invite_links) :
          (invite_links[i].user_id = invite_links[j].user_id
             /\ invite_links[i].chat_id = invite_links[j].chat_id) => i = j)

\* C36: on the flat-file adapter, after any sequence of completed operations,
\* successful_referrals of every (user, channel) record equals the length of
\* its referred_users list.
C36_CounterMatchesList ==
  \A u \in Users, c \in Channels :
    db.chan[u][c].present =>
      db.chan[u][c].successful_referrals = Len(db.chan[u][c].referred_users)

\* a user was credited twice for a channel, and one of the two referred users
\* has left
C36_Witness ==
  /\ last.op = "unrefer" /\ last.wrote
  /\ db.chan[last.referrer][last.chan].successful_referrals = 1
  /\ Len(db.chan[last.referrer][last.chan].referred_users) = 1

\* the referrers whose referred_users list for channel c holds user u
ListedReferrers(s, c, u) ==
  {r \in Users : s.chan[r][c].present /\ u \in SeqToSet(s.chan[r][c].referred_users)}

\* C37: in every reachable state a referred user is in the referred_users list
\* of at most one referrer per channel, and on a leave find_referrer returns
\* the referrer credited for the user's latest join.
C37_UnambiguousReversal ==
  \A c \in Channels, u \in Users :
    /\ Cardinality(ListedReferrers(db, c, u)) <= 1
    /\ \A r \in Users :
         u \in attributed[r][c] => find_referrer(backend, db, c, u) = r

\* C38: with the handlers of one process switching only at awaits, no handler
\* is suspended between the pending lookup and the counter write-back of its
\* join, and every join whose referrer is a user raises successful_referrals
\* of that referrer for the channel by exactly 1, so that N such joins raise
\* it by N.
C38_CreditAtomic ==
  /\ [](\A i \in Instances : inflight[i].pc # "read")
  /\ [][(last'.op = "join" /\ steps' = steps + 1 /\ last'.referrer \in Users)
          => successful_referrals(db', last'.referrer, last'.chan)
               = successful_referrals(db, last'.referrer, last'.chan) + 1]_vars

\* C39: once a claim of (u, c) has returned success with total n, the stored
\* rewards_claimed of (u, c) is at least n, whatever calls for u interleave
\* with the claim at their reads and writes of the store
C39_ClaimDurable ==
  (last.op = "claim" /\ last.wrote)
    => rewards_claimed(db, last.user, last.chan) >= last.ret

====
